---------------------------- MODULE Spec2Model ----------------------------
(***************************************************************************)
(* FCM web-push test harness: the React component of src/src/App.tsx and   *)
(* the service worker of src/unnamed/part_000 (firebase-messaging-sw.js).  *)
(*                                                                         *)
(* A string is the sequence of its UTF-16 code units, as in JavaScript, so *)
(* that trim(), JSON.stringify and JSON.parse are computed and not         *)
(* assumed.  T(<<"a", "b">>) writes a string of printable ASCII.           *)
(***************************************************************************)
EXTENDS Integers, Sequences, FiniteSets, TLC

(***************************************************************************)
(* Strings                                                                 *)
(***************************************************************************)
\* the printable ASCII characters U+0020 to U+005F and U+0061 to U+007E, in
\* code order (U+0060 cannot be written in a string of this language)
Printable ==
    <<" ", "!", "\"", "#", "$", "%", "&", "'", "(", ")", "*", "+", ",", "-", ".", "/",
      "0", "1", "2", "3", "4", "5", "6", "7", "8", "9", ":", ";", "<", "=", ">", "?",
      "@", "A", "B", "C", "D", "E", "F", "G", "H", "I", "J", "K", "L", "M", "N", "O",
      "P", "Q", "R", "S", "T", "U", "V", "W", "X", "Y", "Z", "[", "\\", "]", "^", "_",
      "a", "b", "c", "d", "e", "f", "g", "h", "i", "j", "k", "l", "m", "n", "o",
      "p", "q", "r", "s", "t", "u", "v", "w", "x", "y", "z", "{", "|", "}", "~">>

\* the code unit of a printable ASCII character
Code ==
    [c \in {Printable[i] : i \in 1..Len(Printable)} |->
        LET i == CHOOSE j \in 1..Len(Printable) : Printable[j] = c
        IN IF i <= 64 THEN 31 + i ELSE 32 + i]

\* the string of the given printable ASCII characters
T(s) == IF s = <<>> THEN <<>> ELSE [i \in 1..Len(s) |-> Code[s[i]]]

HexVal(c) ==
    IF c \in 48..57 THEN c - 48
    ELSE IF c \in 65..70 THEN c - 55
    ELSE IF c \in 97..102 THEN c - 87
    ELSE -1
HexDigit(v) == IF v < 10 THEN 48 + v ELSE 87 + v

\* the decimal digits of a natural number
RECURSIVE NatText(_)
NatText(n) == IF n < 10 THEN <<48 + n>> ELSE Append(NatText(n \div 10), 48 + (n % 10))

\* white space as trim() removes it: WhiteSpace and LineTerminator of
\* ECMAScript (TAB, LF, VT, FF, CR, SP, NBSP, the Unicode Zs characters,
\* LS, PS and the BOM)
IsSpace(c) ==
    c \in {9, 10, 11, 12, 13, 32, 160, 5760, 8232, 8233, 8239, 8287, 12288, 65279}
          \cup (8192..8202)

RECURSIVE TrimStart(_)
TrimStart(s) == IF s # <<>> /\ IsSpace(Head(s)) THEN TrimStart(Tail(s)) ELSE s

RECURSIVE TrimEnd(_)
TrimEnd(s) ==
    IF s # <<>> /\ IsSpace(s[Len(s)]) THEN TrimEnd(SubSeq(s, 1, Len(s) - 1)) ELSE s

\* s.trim()
Trim(s) == TrimEnd(TrimStart(s))

\* !s.trim()
IsBlank(s) == Trim(s) = <<>>

(***************************************************************************)
(* JavaScript values: a tagged record per type                             *)
(***************************************************************************)
JUndef == [t |-> "undefined"]
JNull == [t |-> "null"]
JBool(b) == [t |-> "bool", b |-> b]
\* a number is [t |-> "num", d |-> the text String(x) gives for it]
JStr(s) == [t |-> "str", s |-> s]
JArr(xs) == [t |-> "arr", xs |-> xs]
\* an object: its own properties, a sequence of <<key, value>> in property
\* order
JObj(ms) == [t |-> "obj", ms |-> ms]

(***************************************************************************)
(* Numbers: the value JSON.parse gives a number text, as String(x)         *)
(***************************************************************************)
\* the end of the digits that start at position i of s
ScanDigits(s, i) ==
    IF i > Len(s) THEN i
    ELSE CHOOSE j \in i..(Len(s) + 1) :
             /\ j > Len(s) \/ s[j] \notin 48..57
             /\ \A k \in i..(j - 1) : s[k] \in 48..57

StripLeadingZeros(s) ==
    SubSeq(s, CHOOSE j \in 1..(Len(s) + 1) :
                  /\ j > Len(s) \/ s[j] # 48
                  /\ \A k \in 1..(j - 1) : s[k] = 48,
           Len(s))

Zeros(n) == [i \in 1..n |-> 48]

\* a < b for digit sequences read as the fractions 0.a and 0.b
DecLess(a, b) ==
    LET k == IF Len(a) > Len(b) THEN Len(a) ELSE Len(b)
        pa == a \o Zeros(k - Len(a))
        pb == b \o Zeros(k - Len(b))
    IN \E i \in 1..k : pa[i] < pb[i] /\ \A j \in 1..(i - 1) : pa[j] = pb[j]

\* Number::toString of the value 0.D * 10^n, D its significant digits
NumberToString(D, n) ==
    LET k == Len(D) IN
    IF k <= n /\ n <= 21 THEN D \o Zeros(n - k)
    ELSE IF 0 < n /\ n <= 21 THEN SubSeq(D, 1, n) \o <<46>> \o SubSeq(D, n + 1, k)
    ELSE IF -6 < n /\ n <= 0 THEN <<48, 46>> \o Zeros(-n) \o D
    ELSE (IF k = 1 THEN D ELSE <<D[1], 46>> \o SubSeq(D, 2, k))
         \o <<101>> \o (IF n - 1 < 0 THEN <<45>> \o NatText(1 - n)
                        ELSE <<43>> \o NatText(n - 1))

Infinity == T(<<"I", "n", "f", "i", "n", "i", "t", "y">>)

\* the digits of the exponent written from position c of a number text
\* (after e or E and a sign), none when there is no exponent
Exponent(text, c) ==
    IF c > Len(text) THEN <<>>
    ELSE SubSeq(text, IF text[c + 1] \in {43, 45} THEN c + 2 ELSE c + 1, Len(text))

(***************************************************************************)
(* Natural numbers of any size, for the conversion between decimal texts   *)
(* and doubles: a number is the sequence of its base-10000 limbs, the      *)
(* least significant first (leading zero limbs are allowed).               *)
(***************************************************************************)
Limb(a, i) == IF i <= Len(a) THEN a[i] ELSE 0

\* a * k + b * l in the limbs lo..hi, given the carry into limb lo: the
\* limbs, followed by the carry out of limb hi; the lower half of the range
\* first, then the upper half with the carry out of the lower one; k and l
\* are small
RECURSIVE LinRange(_, _, _, _, _, _, _)
LinUpper(a, k, b, l, lower, lo, hi) ==
    SubSeq(lower, 1, Len(lower) - 1) \o LinRange(a, k, b, l, lo, hi, lower[Len(lower)])

LinRange(a, k, b, l, lo, hi, carry) ==
    IF lo > hi THEN <<carry>>
    ELSE IF lo = hi
    THEN <<(Limb(a, lo) * k + Limb(b, lo) * l + carry) % 10000,
           (Limb(a, lo) * k + Limb(b, lo) * l + carry) \div 10000>>
    ELSE LinUpper(a, k, b, l, LinRange(a, k, b, l, lo, (lo + hi) \div 2, carry),
                  (lo + hi) \div 2 + 1, hi)

\* the limbs r with the last carry, which is not negative, in limbs
LinTop(r) ==
    SubSeq(r, 1, Len(r) - 1)
    \o (IF r[Len(r)] = 0 THEN <<>>
        ELSE IF r[Len(r)] < 10000 THEN <<r[Len(r)]>>
        ELSE <<r[Len(r)] % 10000, r[Len(r)] \div 10000>>)

\* a * k + b * l, which is not negative
Lin(a, k, b, l) ==
    LinTop(LinRange(a, k, b, l, 1, IF Len(a) > Len(b) THEN Len(a) ELSE Len(b), 0))

\* a < b
BigLess(a, b) ==
    \E i \in 1..(Len(a) + Len(b)) :
        /\ Limb(a, i) < Limb(b, i)
        /\ \A j \in (i + 1)..(Len(a) + Len(b)) : Limb(a, j) = Limb(b, j)

\* a * 2^n
RECURSIVE Times2(_, _)
Times2(a, n) ==
    IF a = <<>> THEN <<>>
    ELSE IF n > 17 THEN Times2(Times2(a, n \div 2), n - n \div 2)
    ELSE Lin(a, 2^n, <<>>, 0)

\* a * 10^n
Times10(a, n) == [i \in 1..(n \div 4) |-> 0] \o Lin(a, 10^(n % 4), <<>>, 0)

\* the number written with the decimal digits D
FromDigits(D) ==
    [j \in 1..((Len(D) + 3) \div 4) |->
        LET p == Len(D) - 4 * (j - 1)
        IN (D[p] - 48)
           + (IF p > 1 THEN 10 * (D[p - 1] - 48) ELSE 0)
           + (IF p > 2 THEN 100 * (D[p - 2] - 48) ELSE 0)
           + (IF p > 3 THEN 1000 * (D[p - 3] - 48) ELSE 0)]

\* the number of decimal digits of a number that is not zero
Len10(a) ==
    LET top == CHOOSE i \in 1..Len(a) : a[i] # 0 /\ \A j \in (i + 1)..Len(a) : a[j] = 0
    IN 4 * (top - 1)
       + (IF a[top] >= 1000 THEN 4 ELSE IF a[top] >= 100 THEN 3
          ELSE IF a[top] >= 10 THEN 2 ELSE 1)

\* x < y, or x <= y when incl
Reaches(x, y, incl) == IF incl THEN ~BigLess(y, x) ELSE BigLess(x, y)

\* rem / S is nearer to 1 than to 0, or as near when d is odd
RoundUp(rem, S, d) ==
    \/ BigLess(S, Lin(rem, 2, <<>>, 0))
    \/ ~BigLess(Lin(rem, 2, <<>>, 0), S) /\ d % 2 = 1

\* the first decimal digit of R / S < 1 after the point, floor(10 * R / S),
\* from R10 = 10 * R
Digit(R10, S) == Cardinality({d \in 1..9 : ~BigLess(R10, Lin(S, d, <<>>, 0))})

\* the digit d with what is left of the quotient after it
DigitRow(R10, S, d) == <<d, Lin(R10, 1, S, -d)>>

\* the first cnt decimal digits of R / S < 1 after the point, each with what
\* is left of the quotient after it: <<d, rem>> with rem = 10 * R' - d * S,
\* R' what was left before; the first half of the digits, then the others
RECURSIVE Digits(_, _, _)
DigitsAfter(first, S, cnt) == first \o Digits(first[Len(first)][2], S, cnt)

Digits(R, S, cnt) ==
    IF cnt = 1
    THEN <<DigitRow(Lin(R, 10, <<>>, 0), S, Digit(Lin(R, 10, <<>>, 0), S))>>
    ELSE DigitsAfter(Digits(R, S, cnt \div 2), S, cnt - cnt \div 2)

\* Number::toString of the double x = R / S, with Mp / S and Mm / S half the
\* distances to the doubles above and below: the texts that read back as x
\* are those between x - Mm / S and x + Mp / S (the ends too when incl, as
\* ties go to the even significand).  g holds the digits of x / 10^n, S is
\* scaled by 10^n, and p digits are enough when the p digits, or the p
\* digits with the last one raised, are such a text (17 always are); of the
\* two the nearer to x is taken (free-format printing after Steele and
\* White).
Stops(g, S, Mp, Mm, incl, p) ==
    \/ p = 17
    \/ Reaches(g[p][2], Times10(Mm, p), incl)
    \/ Reaches(S, Lin(g[p][2], 1, Times10(Mp, p), 1), incl)

ShortestAt(g, S, Mp, Mm, incl, n, p) ==
    NumberToString(
        [i \in 1..p |->
            IF i < p THEN 48 + g[i][1]
            ELSE IF /\ Reaches(S, Lin(g[p][2], 1, Times10(Mp, p), 1), incl)
                    /\ \/ ~Reaches(g[p][2], Times10(Mm, p), incl)
                       \/ RoundUp(g[p][2], S, g[p][1])
            THEN 49 + g[p][1]
            ELSE 48 + g[p][1]],
        n)

ShortestIn(g, S, Mp, Mm, incl, n) ==
    ShortestAt(g, S, Mp, Mm, incl, n,
               CHOOSE p \in 1..17 :
                   /\ Stops(g, S, Mp, Mm, incl, p)
                   /\ \A j \in 1..(p - 1) : ~Stops(g, S, Mp, Mm, incl, j))

\* n is the exponent with 10^(n - 1) < x + Mp / S <= 10^n (< 10^n when incl)
ShortestFrom(R, S, Mp, Mm, incl, n) ==
    ShortestIn(Digits(Times10(R, IF n < 0 THEN -n ELSE 0),
                      Times10(S, IF n > 0 THEN n ELSE 0), 17),
               Times10(S, IF n > 0 THEN n ELSE 0),
               Times10(Mp, IF n < 0 THEN -n ELSE 0),
               Times10(Mm, IF n < 0 THEN -n ELSE 0), incl, n)

\* the exponent is that of the lengths of x + Mp / S and 1 / S, or one more
ShortestOf(R, S, Mp, Mm, incl, est) ==
    IF Reaches(Times10(S, IF est > 0 THEN est ELSE 0),
               Times10(Lin(R, 1, Mp, 1), IF est < 0 THEN -est ELSE 0), incl)
    THEN ShortestFrom(R, S, Mp, Mm, incl, est + 1)
    ELSE ShortestFrom(R, S, Mp, Mm, incl, est)

\* String(x) of the double x = m * 2^q, m its 53-bit significand in four
\* limbs: below 2^52 * 2^q the doubles are twice as dense (2^52 is the limbs
\* 496, 2737, 5996, 4503)
Shortest(m, q) ==
    IF m = <<496, 2737, 5996, 4503>> /\ q > -1074
    THEN ShortestOf(Times2(m, (IF q > 0 THEN q ELSE 0) + 2),
                    Times2(<<1>>, (IF q < 0 THEN -q ELSE 0) + 2),
                    Times2(<<1>>, (IF q > 0 THEN q ELSE 0) + 1),
                    Times2(<<1>>, IF q > 0 THEN q ELSE 0), TRUE,
                    Len10(Times2(Lin(m, 2, <<1>>, 1), (IF q > 0 THEN q ELSE 0) + 1))
                    - Len10(Times2(<<1>>, (IF q < 0 THEN -q ELSE 0) + 2)))
    ELSE ShortestOf(Times2(m, (IF q > 0 THEN q ELSE 0) + 1),
                    Times2(<<1>>, (IF q < 0 THEN -q ELSE 0) + 1),
                    Times2(<<1>>, IF q > 0 THEN q ELSE 0),
                    Times2(<<1>>, IF q > 0 THEN q ELSE 0), m[1] % 2 = 0,
                    Len10(Times2(Lin(m, 2, <<1>>, 1), IF q > 0 THEN q ELSE 0))
                    - Len10(Times2(<<1>>, (IF q < 0 THEN -q ELSE 0) + 1)))

\* String(x) of the double x = v.m * 2^v.q with the given sign: 0 when m is
\* 0, Infinity from 2^1024 on; a significand rounded up to 2^53 (the limbs
\* 992, 5474, 1992, 9007) is 2^52 with the next exponent
DoubleText(sign, v) ==
    IF v.m = <<0, 0, 0, 0>> THEN <<48>>
    ELSE IF v.m = <<992, 5474, 1992, 9007>>
    THEN (IF v.q + 1 > 971 THEN sign \o Infinity
          ELSE sign \o Shortest(<<496, 2737, 5996, 4503>>, v.q + 1))
    ELSE IF v.q > 971 THEN sign \o Infinity
    ELSE sign \o Shortest(v.m, v.q)

\* the double m * 2^q that a quotient rounds to, with the 16 digits of g
\* before the point and g[16][2] / S after it: to the nearest, ties to the
\* even m
Significand(g, S, q) ==
    [m |-> IF RoundUp(g[16][2], S, g[16][1])
           THEN Lin(FromDigits([i \in 1..16 |-> 48 + g[i][1]]), 1, <<1>>, 1)
           ELSE FromDigits([i \in 1..16 |-> 48 + g[i][1]]),
     q |-> q]

\* the double nearest to A / B: the exponent q with A / B < 2^53 * 2^q is
\* looked for from a lower estimate on, then the significand is the
\* quotient A / (B * 2^q) in 16 decimal digits, rounded
RECURSIVE Nearest(_, _, _)
Nearest(A, B, q) ==
    IF BigLess(A, Times2(B, 53))
    THEN Significand(Digits(A, Times10(B, 16), 16), Times10(B, 16), q)
    ELSE Nearest(A, Lin(B, 2, <<>>, 0), q + 1)

\* the double nearest to D * 10^e, from the exponent q on (not below that
\* of the least doubles, -1074)
NearestFrom(D, e, q) ==
    Nearest(Times2(Times10(FromDigits(D), IF e > 0 THEN e ELSE 0), IF q < 0 THEN -q ELSE 0),
            Times2(Times10(<<1>>, IF e < 0 THEN -e ELSE 0), IF q > 0 THEN q ELSE 0),
            q)

\* String(x) of the double nearest to 0.D * 10^n with the given sign, D
\* without leading or trailing zeros.  Up to 15 digits in the range of the
\* normal doubles read back as themselves; from 10^310 on the double is
\* Infinity and below 10^-330 it is 0; log2(0.D * 10^n) is at least
\* (n - 1) * 3.32192, which is where the search for the exponent starts.
Rounded(sign, D, n) ==
    IF D = <<>> THEN <<48>>
    ELSE IF n > 309 THEN sign \o Infinity
    ELSE IF n < -330 THEN <<48>>
    ELSE IF Len(D) <= 15 /\ n >= -300 /\ n <= 300 THEN sign \o NumberToString(D, n)
    ELSE IF ((n + 399) * 332192) \div 100000 - 1381 < -1074
    THEN DoubleText(sign, NearestFrom(D, n - Len(D), -1074))
    ELSE DoubleText(sign, NearestFrom(D, n - Len(D),
                                      ((n + 399) * 332192) \div 100000 - 1381))

\* the natural number M as an integer, 10000 for every M from 10000 on
Within(M) == IF \E i \in 2..Len(M) : M[i] # 0 THEN 10000 ELSE Limb(M, 1)

\* the integer k + e, for k of sign kneg and size K and e of sign eneg and
\* size E (a sign is TRUE for minus): the sum itself from -9999 to 9999,
\* -10000 for every sum below and 10000 for every sum above
PointAt(kneg, K, eneg, E) ==
    IF kneg = eneg THEN (IF kneg THEN -1 ELSE 1) * Within(Lin(K, 1, E, 1))
    ELSE IF BigLess(K, E) THEN (IF eneg THEN -1 ELSE 1) * Within(Lin(E, 1, K, -1))
    ELSE (IF kneg THEN -1 ELSE 1) * Within(Lin(K, 1, E, -1))

\* the end of the fraction that may follow the integer digits ending at b
FracEnd(s, b) == IF b <= Len(s) /\ s[b] = 46 THEN ScanDigits(s, b + 1) ELSE b

\* the number a JSON number text denotes: the nearest double, as String(x).
\* The digits start at a, the integer digits end at b and the fraction at c;
\* the value is the digits as an integer, times 10 to the exponent less the
\* length of the fraction: 0.D * 10^n with D the digits without their
\* leading and trailing zeros and n = k + e, k the number of digits left
\* of the point (less the zeros that follow it, when there are none) and e
\* the exponent, of any size.  Rounded gives Infinity for every n above 309
\* and 0 for every n below -330.
NumberValue(text) ==
    LET a == IF text[1] = 45 THEN 2 ELSE 1
        b == ScanDigits(text, a)
        c == FracEnd(text, b)
        digits == StripLeadingZeros(SubSeq(text, a, b - 1) \o SubSeq(text, b + 1, c - 1))
        k == Len(digits) - (IF c > b THEN c - b - 1 ELSE 0)
        size == IF k < 0 THEN -k ELSE k
    IN Rounded(IF a = 2 THEN <<45>> ELSE <<>>,
               SubSeq(digits, 1, CHOOSE j \in 0..Len(digits) :
                                     /\ j = 0 \/ digits[j] # 48
                                     /\ \A i \in (j + 1)..Len(digits) : digits[i] = 48),
               PointAt(k < 0,
                       <<size % 10000, (size \div 10000) % 10000, size \div 100000000>>,
                       c < Len(text) /\ text[c + 1] = 45,
                       FromDigits(Exponent(text, c))))

(***************************************************************************)
(* JSON.parse                                                              *)
(***************************************************************************)
\* A parse result: ok, the value, and the position after it.
PFail == [ok |-> FALSE, val |-> JNull, pos |-> 0]
POk(v, p) == [ok |-> TRUE, val |-> v, pos |-> p]

\* the end of the white space of the JSON grammar from position i on
RECURSIVE SkipWs(_, _)
SkipWs(s, i) == IF i <= Len(s) /\ s[i] \in {9, 10, 13, 32} THEN SkipWs(s, i + 1) ELSE i

\* the characters of a JSON string after its opening quote, unescaped; a
\* character below U+0020 is not allowed in it
RECURSIVE ScanString(_, _, _)
ScanString(s, i, acc) ==
    IF i > Len(s) THEN PFail
    ELSE IF s[i] = 34 THEN POk(JStr(acc), i + 1)
    ELSE IF s[i] < 32 THEN PFail
    ELSE IF s[i] = 92
         THEN IF i + 1 > Len(s) THEN PFail
              ELSE IF s[i + 1] \in {34, 92, 47, 98, 102, 110, 114, 116}
              THEN ScanString(s, i + 2,
                              Append(acc, CASE s[i + 1] = 98 -> 8 [] s[i + 1] = 102 -> 12
                                            [] s[i + 1] = 110 -> 10 [] s[i + 1] = 114 -> 13
                                            [] s[i + 1] = 116 -> 9 [] OTHER -> s[i + 1]))
              ELSE IF /\ s[i + 1] = 117
                      /\ i + 5 <= Len(s)
                      /\ \A j \in 2..5 : HexVal(s[i + j]) >= 0
              THEN ScanString(s, i + 6,
                              Append(acc, 4096 * HexVal(s[i + 2]) + 256 * HexVal(s[i + 3])
                                          + 16 * HexVal(s[i + 4]) + HexVal(s[i + 5])))
              ELSE PFail
    ELSE ScanString(s, i + 1, Append(acc, s[i]))

\* a JSON number: -? int frac? exp?, read from i; a is where its digits
\* start, b where the integer digits end, c where the fraction ends, e where
\* the digits of the exponent start and d where the number ends
NumberDone(s, i, c, e, d) ==
    IF e = c \/ d > e THEN POk([t |-> "num", d |-> NumberValue(SubSeq(s, i, d - 1))], d) ELSE PFail

ExpStart(s, c) ==
    IF c <= Len(s) /\ s[c] \in {101, 69}
    THEN IF c + 1 <= Len(s) /\ s[c + 1] \in {43, 45} THEN c + 2 ELSE c + 1
    ELSE c

NumberExp(s, i, b, c) ==
    IF c = b \/ c > b + 1 THEN NumberDone(s, i, c, ExpStart(s, c),
                    IF ExpStart(s, c) > c THEN ScanDigits(s, ExpStart(s, c)) ELSE c)
    ELSE PFail

NumberFrac(s, i, a, b) ==
    IF b > a /\ (s[a] = 48 => b = a + 1) THEN NumberExp(s, i, b, FracEnd(s, b))
    ELSE PFail

ParseNumber(s, i) ==
    IF i <= Len(s) /\ s[i] = 45 THEN NumberFrac(s, i, i + 1, ScanDigits(s, i + 1))
    ELSE NumberFrac(s, i, i, ScanDigits(s, i))

MatchesAt(s, i, word) ==
    /\ i + Len(word) - 1 <= Len(s)
    /\ SubSeq(s, i, i + Len(word) - 1) = word

\* an array index: the canonical decimal text of an integer below 2^32 - 1
IndexLess(a, b) ==
    \/ Len(a) < Len(b)
    \/ Len(a) = Len(b) /\ DecLess(a, b)
IsArrayIndex(key) ==
    /\ key # <<>>
    /\ \A i \in 1..Len(key) : key[i] \in 48..57
    /\ Len(key) = 1 \/ key[1] # 48
    /\ ~IndexLess(T(<<"4", "2", "9", "4", "9", "6", "7", "2", "9", "4">>), key)

\* the position of a new property: integer keys go first, in ascending
\* order, the other keys after them in the order they were created
RECURSIVE InsertAt(_, _, _)
InsertAt(ms, key, i) ==
    IF i > Len(ms) THEN i
    ELSE IF ~IsArrayIndex(key) THEN Len(ms) + 1
    ELSE IF ~IsArrayIndex(ms[i][1]) \/ IndexLess(key, ms[i][1]) THEN i
    ELSE InsertAt(ms, key, i + 1)

\* obj[key] = value on the own properties of an object
SetMember(ms, key, value) ==
    IF \E i \in 1..Len(ms) : ms[i][1] = key
    THEN [i \in 1..Len(ms) |-> IF ms[i][1] = key THEN <<key, value>> ELSE ms[i]]
    ELSE SubSeq(ms, 1, InsertAt(ms, key, 1) - 1) \o << <<key, value>> >>
         \o SubSeq(ms, InsertAt(ms, key, 1), Len(ms))

RECURSIVE ParseValue(_, _)
RECURSIVE ParseMembers(_, _, _)
RECURSIVE ParseElements(_, _, _)

\* the members of an object, from the first key to the closing brace: the
\* key k, the colon at c, the value v, and what follows at e
MemberNext(s, e, ms) ==
    IF e > Len(s) THEN PFail
    ELSE IF s[e] = 125 THEN POk(JObj(ms), e + 1)
    ELSE IF s[e] = 44 THEN ParseMembers(s, e + 1, ms)
    ELSE PFail

MemberEnd(s, k, v, acc) ==
    IF ~v.ok THEN PFail
    ELSE MemberNext(s, SkipWs(s, v.pos), SetMember(acc, k.val.s, v.val))

MemberValue(s, k, c, acc) ==
    IF c > Len(s) \/ s[c] # 58 THEN PFail
    ELSE MemberEnd(s, k, ParseValue(s, c + 1), acc)

MemberColon(s, k, acc) ==
    IF ~k.ok THEN PFail ELSE MemberValue(s, k, SkipWs(s, k.pos), acc)

MemberKey(s, i, acc) ==
    IF i > Len(s) \/ s[i] # 34 THEN PFail
    ELSE MemberColon(s, ScanString(s, i + 1, <<>>), acc)

ParseMembers(s, i0, acc) == MemberKey(s, SkipWs(s, i0), acc)

\* the elements of an array, from the first element to the closing bracket
ElementNext(s, e, xs) ==
    IF e > Len(s) THEN PFail
    ELSE IF s[e] = 93 THEN POk(JArr(xs), e + 1)
    ELSE IF s[e] = 44 THEN ParseElements(s, e + 1, xs)
    ELSE PFail

ElementEnd(s, v, acc) ==
    IF ~v.ok THEN PFail ELSE ElementNext(s, SkipWs(s, v.pos), Append(acc, v.val))

ParseElements(s, i0, acc) == ElementEnd(s, ParseValue(s, i0), acc)

\* the value that starts at i; j is what follows an opening brace or bracket
ObjectAt(s, i, j) ==
    IF j <= Len(s) /\ s[j] = 125 THEN POk(JObj(<<>>), j + 1)
    ELSE ParseMembers(s, i + 1, <<>>)

ArrayAt(s, i, j) ==
    IF j <= Len(s) /\ s[j] = 93 THEN POk(JArr(<<>>), j + 1)
    ELSE ParseElements(s, i + 1, <<>>)

ValueAt(s, i) ==
    IF i > Len(s) THEN PFail
    ELSE IF s[i] = 34 THEN ScanString(s, i + 1, <<>>)
    ELSE IF s[i] = 123 THEN ObjectAt(s, i, SkipWs(s, i + 1))
    ELSE IF s[i] = 91 THEN ArrayAt(s, i, SkipWs(s, i + 1))
    ELSE IF MatchesAt(s, i, T(<<"n", "u", "l", "l">>)) THEN POk(JNull, i + 4)
    ELSE IF MatchesAt(s, i, T(<<"t", "r", "u", "e">>)) THEN POk(JBool(TRUE), i + 4)
    ELSE IF MatchesAt(s, i, T(<<"f", "a", "l", "s", "e">>)) THEN POk(JBool(FALSE), i + 5)
    ELSE ParseNumber(s, i)

ParseValue(s, i0) == ValueAt(s, SkipWs(s, i0))

\* the text is one value and white space
WholeText(s, v) ==
    IF v.ok /\ SkipWs(s, v.pos) > Len(s) THEN [ok |-> TRUE, val |-> v.val]
    ELSE [ok |-> FALSE, val |-> JNull]

\* JSON.parse(text): ok = FALSE stands for the SyntaxError it throws
JSONParse(s) == WholeText(s, ParseValue(s, 1))

(***************************************************************************)
(* JSON.stringify                                                          *)
(***************************************************************************)
\* \uXXXX, in lower-case hexadecimal
UnicodeEscape(c) ==
    <<92, 117, HexDigit(c \div 4096), HexDigit((c \div 256) % 16),
      HexDigit((c \div 16) % 16), HexDigit(c % 16)>>

\* a string written without escaping
Escape_Raw(s) == s

\* QuoteJSONString without the quotes: quote, backslash and the characters
\* below U+0020 are escaped, and a surrogate (high D800-DBFF, low
\* DC00-DFFF) that has no partner
RECURSIVE EscapeFrom(_, _)
EscapeFrom(s, i) ==
    IF i > Len(s) THEN <<>>
    ELSE IF s[i] \in 55296..56319 /\ i < Len(s) /\ s[i + 1] \in 56320..57343
    THEN <<s[i], s[i + 1]>> \o EscapeFrom(s, i + 2)
    ELSE (CASE s[i] \in {34, 92} -> <<92, s[i]>>
            [] s[i] = 8 -> <<92, 98>>
            [] s[i] = 9 -> <<92, 116>>
            [] s[i] = 10 -> <<92, 110>>
            [] s[i] = 12 -> <<92, 102>>
            [] s[i] = 13 -> <<92, 114>>
            [] s[i] < 32 /\ s[i] \notin {8, 9, 10, 12, 13} -> UnicodeEscape(s[i])
            [] s[i] \in 55296..57343 -> UnicodeEscape(s[i])
            [] OTHER -> <<s[i]>>)
         \o EscapeFrom(s, i + 1)

Escape(s) == EscapeFrom(s, 1)

Quote(s) == <<34>> \o Escape(s) \o <<34>>

\* JSON.stringify(value) of a value that is not undefined: an undefined
\* property is left out, an undefined element is written null, a number
\* that is not finite is written null
RECURSIVE Stringify(_)
RECURSIVE StringifyElements(_, _)
RECURSIVE StringifyMembers(_, _, _)
StringifyElements(xs, i) ==
    IF i > Len(xs) THEN <<>>
    ELSE (IF i > 1 THEN <<44>> ELSE <<>>)
         \o (IF xs[i] = JUndef THEN T(<<"n", "u", "l", "l">>) ELSE Stringify(xs[i]))
         \o StringifyElements(xs, i + 1)

StringifyMembers(ms, i, first) ==
    IF i > Len(ms) THEN <<>>
    ELSE IF ms[i][2] = JUndef THEN StringifyMembers(ms, i + 1, first)
    ELSE (IF first THEN <<>> ELSE <<44>>)
         \o Quote(ms[i][1]) \o <<58>> \o Stringify(ms[i][2])
         \o StringifyMembers(ms, i + 1, FALSE)

Stringify(v) ==
    CASE v.t = "null" -> T(<<"n", "u", "l", "l">>)
      [] v.t = "bool" -> IF v.b THEN T(<<"t", "r", "u", "e">>)
                         ELSE T(<<"f", "a", "l", "s", "e">>)
      [] v.t = "num" -> IF v.d \in {Infinity, <<45>> \o Infinity}
                        THEN T(<<"n", "u", "l", "l">>) ELSE v.d
      [] v.t = "str" -> Quote(v.s)
      [] v.t = "arr" -> <<91>> \o StringifyElements(v.xs, 1) \o <<93>>
      [] v.t = "obj" -> <<123>> \o StringifyMembers(v.ms, 1, TRUE) \o <<125>>

\* JavaScript truthiness
Truthy(v) ==
    CASE v.t \in {"undefined", "null"} -> FALSE
      [] v.t = "bool" -> v.b
      [] v.t = "num" -> v.d # <<48>>
      [] v.t = "str" -> v.s # <<>>
      [] OTHER -> TRUE

\* value[key] for a key that is no index and not "length": the own property
\* of an object, undefined otherwise
RECURSIVE IndexOfKey(_, _, _)
IndexOfKey(ms, key, i) ==
    IF i > Len(ms) THEN 0
    ELSE IF ms[i][1] = key THEN i
    ELSE IndexOfKey(ms, key, i + 1)

Prop(v, key) ==
    IF v.t = "obj" /\ IndexOfKey(v.ms, key, 1) > 0 THEN v.ms[IndexOfKey(v.ms, key, 1)][2] ELSE JUndef

(***************************************************************************)
(* Form values the model draws from.  The texts hold a blank, a quote and  *)
(* a backslash so that trim and JSON escaping have something to do.        *)
(***************************************************************************)
\* the storage members and the fields of FirebaseConfig, by name
K ==
    [ config |-> T(<<"c", "o", "n", "f", "i", "g">>),
      vapidKey |-> T(<<"v", "a", "p", "i", "d", "K", "e", "y">>),
      serverKey |-> T(<<"s", "e", "r", "v", "e", "r", "K", "e", "y">>),
      apiKey |-> T(<<"a", "p", "i", "K", "e", "y">>),
      authDomain |-> T(<<"a", "u", "t", "h", "D", "o", "m", "a", "i", "n">>),
      projectId |-> T(<<"p", "r", "o", "j", "e", "c", "t", "I", "d">>),
      storageBucket |->
          T(<<"s", "t", "o", "r", "a", "g", "e", "B", "u", "c", "k", "e", "t">>),
      messagingSenderId |->
          T(<<"m", "e", "s", "s", "a", "g", "i", "n", "g", "S", "e", "n", "d", "e", "r",
              "I", "d">>),
      appId |-> T(<<"a", "p", "p", "I", "d">>) ]

\* the fields of FirebaseConfig in declaration order
ConfigFields ==
    <<K.apiKey, K.authDomain, K.projectId, K.storageBucket, K.messagingSenderId,
      K.appId>>

\* a FirebaseConfig object with the given text in each field
ConfigOf(texts) ==
    JObj([i \in 1..Len(ConfigFields) |-> <<ConfigFields[i], JStr(texts[i])>>])

\* defaultConfig: every field the empty string
defaultConfig == ConfigOf([i \in 1..6 |-> <<>>])

\* two complete project configurations a developer may paste
ConfigA == ConfigOf([i \in 1..6 |-> T(<<"a">>)])
ConfigB == ConfigOf([i \in 1..6 |-> IF i = 1 THEN T(<<"\"", "b">>) ELSE T(<<"b", "\\">>)])

\* What the model draws from.  The texts hold a blank, a quote and a
\* backslash so that trim and JSON escaping have something to do.
Inputs ==
    [ \* what the user may type into one field of the form
      FieldValues |-> {<<>>, T(<<" ">>), T(<<"a">>)},
      EditedKeys |-> {K.apiKey},
      VapidKeyValues |-> {<<>>, T(<<" ">>), T(<<"\"", "\\">>)},
      ServerKeyValues |-> {<<>>, T(<<" ">>), T(<<" ", "k">>)},
      TargetTokenValues |-> {<<>>, T(<<" ">>), T(<<"t", " ">>)},
      \* texts of the data textarea: blank, valid JSON, invalid JSON
      DataValues |->
          {<<>>, T(<<" ">>), T(<<"{", "}">>), T(<<" ", "1", " ">>), T(<<"{">>),
           T(<<"n", "u", "l", "l">>)},
      \* tokens the SDK may issue
      TokenValues |-> {T(<<"t", "1">>), T(<<"t", "2">>)},
      \* what Notification.requestPermission may resolve to
      PermissionResults |-> {"granted", "denied", "default"},
      \* what a promise of the SDK or the browser may reject with: an Error
      \* with a message, or a value without one
      Rejections |-> {[hasMessage |-> TRUE, message |-> T(<<"e", "r", "r">>)],
                      [hasMessage |-> FALSE, message |-> <<>>]},
      \* bodies and statuses the push endpoint may answer with
      ResultTexts |-> {<<>>, T(<<"o", "k">>)},
      Statuses |-> {200, 401},
      \* the browser APIs the page reads
      AllApis |-> {"Notification", "serviceWorker", "clipboard"} ]

\* initialPushPayload.data: {"foo":"bar"}
initialData ==
    T(<<"{", "\"", "f", "o", "o", "\"", ":", "\"", "b", "a", "r", "\"", "}">>)

\* bound on the user-triggered operations (clicks, edits, reloads) of a run
MaxOps == 3

(***************************************************************************)
(* The form: what an input shows, Object.values, the spread of a value     *)
(***************************************************************************)
\* String(value), as an <input value={value}> shows it ('' + value):
\* nothing for null and undefined, the elements joined with commas for an
\* array (Array.prototype.toString), "[object Object]" for an object.  An
\* object with an own property toString has no method to convert it (JSON
\* gives the property a value that is not callable, and valueOf gives no
\* primitive): the conversion throws a TypeError, also from inside an array.
\* The result for a throw is <<-1>>, which is the text of no value.
RECURSIVE StringOf(_)
RECURSIVE JoinElements(_, _)
JoinElements(xs, i) ==
    IF i > Len(xs) THEN <<>>
    ELSE IF \E j \in i..Len(xs) : StringOf(xs[j]) = <<-1>> THEN <<-1>>
    ELSE (IF i > 1 THEN <<44>> ELSE <<>>) \o StringOf(xs[i]) \o JoinElements(xs, i + 1)

StringOf(v) ==
    CASE v.t \in {"undefined", "null"} -> <<>>
      [] v.t = "bool" -> IF v.b THEN T(<<"t", "r", "u", "e">>)
                         ELSE T(<<"f", "a", "l", "s", "e">>)
      [] v.t = "num" -> v.d
      [] v.t = "str" -> v.s
      [] v.t = "arr" -> JoinElements(v.xs, 1)
      [] v.t = "obj" ->
            IF IndexOfKey(v.ms, T(<<"t", "o", "S", "t", "r", "i", "n", "g">>), 1) > 0
            THEN <<-1>>
            ELSE T(<<"[", "o", "b", "j", "e", "c", "t", " ", "O", "b", "j", "e", "c", "t",
                     "]">>)

\* the own enumerable properties of a value, as { ...value } copies them: the
\* properties of an object, the elements of an array and the code units of
\* a string under their indices, nothing for the other values
OwnProperties(v) ==
    CASE v.t = "obj" -> v.ms
      [] v.t = "arr" -> [i \in 1..Len(v.xs) |-> <<NatText(i - 1), v.xs[i]>>]
      [] v.t = "str" -> [i \in 1..Len(v.s) |-> <<NatText(i - 1), JStr(<<v.s[i]>>)>>]
      [] OTHER -> <<>>

\* ({ ...prev, [key]: value })
SpreadWith(prev, key, value) == JObj(SetMember(OwnProperties(prev), key, JStr(value)))

\* Object.values(config).every((value) => value.trim().length > 0): "true",
\* "false", or "throws" for the TypeError of Object.values(undefined or
\* null) and of value.trim on a value that is no string; every() stops at
\* the first value that is blank
RECURSIVE EveryNonBlank(_, _)
EveryNonBlank(ps, i) ==
    IF i > Len(ps) THEN "true"
    ELSE IF ps[i][2].t # "str" THEN "throws"
    ELSE IF Len(Trim(ps[i][2].s)) > 0 THEN EveryNonBlank(ps, i + 1)
    ELSE "false"

ConfigCheck(config) ==
    IF config.t \in {"undefined", "null"} THEN "throws"
    ELSE EveryNonBlank(OwnProperties(config), 1)

\* configIsComplete (lines 354-357) where the render does not throw
configIsComplete(config) == ConfigCheck(config) = "true"

\* the render throws, and React unmounts the page: at line 355, or where an
\* input of lines 383-434 is given a field of the config that has no text
RenderThrows(config) ==
    \/ ConfigCheck(config) = "throws"
    \/ \E i \in 1..Len(ConfigFields) : StringOf(Prop(config, ConfigFields[i])) = <<-1>>

(***************************************************************************)
(* localStorage text of the settings                                       *)
(***************************************************************************)
\* JSON.stringify({ config, vapidKey, serverKey })
StringifySettings(config, vKey, sKey) ==
    Stringify(JObj(<< <<K.config, config>>, <<K.vapidKey, vKey>>,
                      <<K.serverKey, sKey>> >>))

NoStorage == [present |-> FALSE, text |-> <<>>]
Stored(text) == [present |-> TRUE, text |-> text]

\* saveSettings: localStorage.setItem(LOCAL_STORAGE_KEY, JSON.stringify(...))
saveSettings(config, vKey, sKey) == Stored(StringifySettings(config, vKey, sKey))

\* loadSavedSettings: null when nothing is stored, the text is empty or
\* JSON.parse throws; the parsed value otherwise
loadSavedSettings(store) ==
    IF ~store.present \/ store.text = <<>> THEN [ok |-> FALSE, val |-> JNull]
    ELSE JSONParse(store.text)

\* the mount effect (lines 114-121): the form after `if (saved) { set... }`,
\* each cell the property of the saved value as it is
FormOf(saved) ==
    IF saved.ok /\ Truthy(saved.val)
    THEN [config |-> Prop(saved.val, K.config),
          vapidKey |-> Prop(saved.val, K.vapidKey),
          serverKey |-> Prop(saved.val, K.serverKey)]
    ELSE [config |-> defaultConfig, vapidKey |-> JStr(<<>>), serverKey |-> JStr(<<>>)]

MountedForm(store) == FormOf(loadSavedSettings(store))

\* parseDataPayload: undefined for blank text, the parsed value, or a throw
parseDataPayload(data) ==
    IF IsBlank(data) THEN [threw |-> FALSE, defined |-> FALSE, val |-> JNull]
    ELSE [threw |-> ~JSONParse(data).ok, defined |-> JSONParse(data).ok,
          val |-> JSONParse(data).val]

(***************************************************************************)
(* The texts of the status log                                             *)
(***************************************************************************)
\* the status and result texts of the page, as sequences of UTF-16 code units
Msg ==
    \* line 143, "the environment has no service workers" (22 code units)
    [ NoServiceWorker |->
          <<49436, 48708, 49828, 32, 50892, 52964, 47484, 32, 51648, 50896,
          54616, 51648, 32, 50506, 45716, 32, 54872, 44221, 51077, 45768,
          45796, 46>>,
    \* line 193, "the browser does not support FCM web push" (30 code units)
      Unsupported |->
          <<51060, 32, 48652, 46972, 50864, 51200, 50640, 49436, 45716, 32, 70,
          67, 77, 32, 50937, 32, 54392, 49884, 47484, 32, 51648, 50896, 54616,
          51648, 32, 50506, 49845, 45768, 45796, 46>>,
    \* line 202, "the registered Firebase apps were reset" (26 code units)
      AppsReset |->
          <<44592, 51316, 32, 70, 105, 114, 101, 98, 97, 115, 101, 32, 50545,
          32, 44396, 49457, 51012, 32, 52488, 44592, 54868, 54664, 49845,
          45768, 45796, 46>>,
    \* line 212, "initialization and service worker setup completed" (34 code units)
      InitDone |->
          <<70, 105, 114, 101, 98, 97, 115, 101, 32, 52488, 44592, 54868, 32,
          48143, 32, 49436, 48708, 49828, 32, 50892, 52964, 32, 44396, 49457,
          51060, 32, 50756, 47308, 46104, 50632, 49845, 45768, 45796, 46>>,
    \* line 215, "initialization failed" (21 code units)
      InitFailed |->
          <<70, 105, 114, 101, 98, 97, 115, 101, 32, 52488, 44592, 54868, 50640,
          32, 49892, 54056, 54664, 49845, 45768, 45796, 46>>,
    \* line 223, "messaging is not initialized" (42 code units)
      MessagingMissing |->
          <<70, 105, 114, 101, 98, 97, 115, 101, 32, 47700, 49884, 51669, 51060,
          32, 52488, 44592, 54868, 46104, 51648, 32, 50506, 50520, 49845,
          45768, 45796, 46, 32, 47676, 51200, 32, 52488, 44592, 54868, 47484,
          32, 51652, 54665, 54644, 51452, 49464, 50836, 46>>,
    \* line 228, "enter the VAPID key" (16 code units)
      VapidRequired |->
          <<86, 65, 80, 73, 68, 32, 53412, 47484, 32, 51077, 47141, 54644,
          51452, 49464, 50836, 46>>,
    \* line 235, "the browser has no Notification API" (28 code units)
      NotificationUnsupported |->
          <<51060, 32, 48652, 46972, 50864, 51200, 50640, 49436, 45716, 32,
          50508, 47548, 32, 65, 80, 73, 47484, 32, 51648, 50896, 54616, 51648,
          32, 50506, 49845, 45768, 45796, 46>>,
    \* line 241, "permission was not granted, no token" (30 code units)
      PermissionDenied |->
          <<50508, 47548, 32, 44428, 54620, 51012, 32, 54728, 50857, 54616,
          51648, 32, 50506, 50500, 32, 53664, 53360, 51012, 32, 48156, 44553,
          54624, 32, 49688, 32, 50630, 49845, 45768, 45796, 46>>,
    \* line 252, "issuing the token failed" (14 code units)
      TokenEmpty |->
          <<53664, 53360, 32, 48156, 44553, 50640, 32, 49892, 54056, 54664,
          49845, 45768, 45796, 46>>,
    \* line 258, "the registration token was issued" (18 code units)
      TokenIssued |->
          <<70, 67, 77, 32, 46321, 47197, 32, 53664, 53360, 51012, 32, 48156,
          44553, 54664, 49845, 45768, 45796, 46>>,
    \* line 261, "an error occurred while issuing the token" (19 code units)
      TokenFailed |->
          <<53664, 53360, 32, 48156, 44553, 32, 51473, 32, 50724, 47448, 44032,
          32, 48156, 49373, 54664, 49845, 45768, 45796, 46>>,
    \* line 269, "the token was copied to the clipboard" (17 code units)
      Copied |->
          <<53664, 53360, 51012, 32, 53364, 47549, 48372, 46300, 50640, 32,
          48373, 49324, 54664, 49845, 45768, 45796, 46>>,
    \* line 271, "copying the token failed" (14 code units)
      CopyFailed |->
          <<53664, 53360, 32, 48373, 49324, 50640, 32, 49892, 54056, 54664,
          49845, 45768, 45796, 46>>,
    \* line 278, "enter the server key" (25 code units)
      ServerKeyRequired |->
          <<49436, 48260, 32, 53412, 40, 108, 101, 103, 97, 99, 121, 32, 107,
          101, 121, 41, 47484, 32, 51077, 47141, 54644, 51452, 49464, 50836,
          46>>,
    \* line 283, "enter the target token" (18 code units)
      TargetRequired |->
          <<51204, 49569, 54624, 32, 45824, 49345, 32, 53664, 53360, 51012, 32,
          51077, 47141, 54644, 51452, 49464, 50836, 46>>,
    \* line 78, "the data is not valid JSON" (24 code units)
      InvalidData |->
          <<45936, 51060, 53552, 40, 74, 83, 79, 78, 41, 32, 54805, 49885,
          51060, 32, 50732, 48148, 47476, 51648, 32, 50506, 49845, 45768,
          45796, 46>>,
    \* line 326, "the send request completed" (21 code units)
      SendDone |->
          <<54392, 49884, 32, 47700, 49884, 51648, 32, 51204, 49569, 32, 50836,
          52397, 51012, 32, 50756, 47308, 54664, 49845, 45768, 45796, 46>>,
    \* line 330, "the send request failed (possibly CORS)" (76 code units)
      SendError |->
          <<54392, 49884, 32, 51204, 49569, 32, 50836, 52397, 32, 51473, 32,
          50724, 47448, 44032, 32, 48156, 49373, 54664, 49845, 45768, 45796,
          46, 32, 48652, 46972, 50864, 51200, 50640, 49436, 32, 67, 79, 82,
          83, 47196, 32, 51064, 54644, 32, 49892, 54056, 54624, 32, 49688, 32,
          51080, 51004, 47728, 44, 32, 51060, 32, 44221, 50864, 32, 49436,
          48260, 32, 49324, 51060, 46300, 32, 54532, 47197, 49884, 47484, 32,
          51060, 50857, 54644, 50556, 32, 54633, 45768, 45796, 46>>,
    \* line 332, "an error occurred" (11 code units)
      ErrorOccurred |->
          <<50724, 47448, 44032, 32, 48156, 49373, 54664, 49845, 45768, 45796,
          46>>,
    \* line 127, "a foreground message was received" (18 code units)
      Foreground |->
          <<54252, 44536, 46972, 50868, 46300, 32, 47700, 49884, 51648, 47484,
          32, 49688, 49888, 54664, 49845, 45768, 45796, 46>>,
    \* line 344, "the Firebase app instance was released" (24 code units)
      AppReleased |->
          <<70, 105, 114, 101, 98, 97, 115, 101, 32, 50545, 32, 51064, 49828,
          53556, 49828, 47484, 32, 54644, 51228, 54664, 49845, 45768, 45796,
          46>> ]

\* line 322: the message of the Error thrown for a response that is not ok,
\* "FCM send failed (" response.status "): " resultText
SendFailedMessage(status, resultText) ==
    <<70, 67, 77, 32, 51204, 49569, 32, 49892, 54056, 32, 40>> \o NatText(status)
    \o <<41, 58, 32>> \o resultText

(***************************************************************************)
(* State                                                                   *)
(***************************************************************************)
VARIABLES
    \* the component's useState cells; firebaseConfig, vapidKey and serverKey
    \* hold JavaScript values (the mount effect stores what it parsed), the
    \* other texts are strings
    firebaseConfig, vapidKey, serverKey, firebaseApp, messaging, isInitializing,
    token, statusMessages, pushPayload, targetToken, sending, sendResult,
    foregroundMessages,
    \* the Firebase SDK of the page: the registered app (getApps), the apps
    \* whose isDeleted flag is set, the next app identity
    apps, deleted, nextApp,
    \* the browser: localStorage, isSupported(), the APIs the page finds
    \* (Notification, navigator.serviceWorker, navigator.clipboard), the
    \* service-worker registration and the messages posted to its worker
    storage, supported, apis, sw, swInbox,
    \* the service-worker script's globals (firebase-messaging-sw.js)
    swApp, messagingInstance, backgroundHandlerRegistered, swSupported,
    \* the invocations of the async handlers that are suspended at an await,
    \* in the order they were started, each with the values its closure
    \* captured and its locals
    run,
    \* history: operations started, what each ensureServiceWorkerRegistration
    \* return and each getToken call saw, the apps an initialization completed
    \* for, the settings last saved, the sends, the answers to
    \* requestPermission, what the worker did with the last events
    ops, mountedAt, lastEnsure, getTokenLog, initCompleted, lastSaved, sendClicks,
    fetchCalls, lastFetch, lastPermission, lastInitMsg, lastPush,
    handlerRegistrations,
    \* history of resetFirebase: "none" before any reset, "running" from the
    \* click of a reset to its end, "done" once it has ended, "void" once an
    \* initialization or a token request was started after the click
    afterReset

formVars == <<firebaseConfig, vapidKey, serverKey, pushPayload, targetToken>>
lifeVars == <<firebaseApp, messaging, isInitializing, token>>
uiVars == <<statusMessages, sending, sendResult, foregroundMessages>>
sdkVars == <<apps, deleted, nextApp>>
browserVars == <<storage, supported, apis, sw, swInbox>>
workerVars == <<swApp, messagingInstance, backgroundHandlerRegistered, swSupported>>
workerHist == <<lastInitMsg, lastPush, handlerRegistrations>>
ensureHist == <<lastEnsure, getTokenLog, initCompleted>>
sendHist == <<sendClicks, fetchCalls, lastFetch>>
callHist == <<mountedAt, ensureHist, lastSaved, sendHist, lastPermission>>
pageHist == <<callHist, afterReset>>

vars == <<formVars, lifeVars, uiVars, sdkVars, browserVars, workerVars, run, ops,
          pageHist, workerHist>>


\* an invocation of handler h that has not reached its first await
NewRun(h) ==
    [h |-> h, pc |-> "new", config |-> JUndef, vapidKey |-> JUndef,
     serverKey |-> JUndef, app |-> 0, gen |-> 0, permission |-> "none",
     ok |-> FALSE, status |-> 0]

Remove(s, i) == SubSeq(s, 1, i - 1) \o SubSeq(s, i + 1, Len(s))

\* invocation i is one of handler h, suspended at pc
At(i, h, pc) == run[i].h = h /\ run[i].pc = pc

\* appendStatus: the new entry goes first
Entry(type, text) == [type |-> type, text |-> text]
appendStatus(type, text) == <<Entry(type, text)>> \o statusMessages

\* the message without the fallback
MessageOr_NoFallback(error, fallback) == error.message

\* error?.message ?? fallback
MessageOr(error, fallback) == IF error.hasMessage THEN error.message ELSE fallback

\* { type: 'INIT_FIREBASE', config: firebaseConfig }
InitMessage(config) == [type |-> "INIT_FIREBASE", config |-> config]

\* the page is gone once a render has thrown (no error boundary), be it at
\* line 355 or in an input that shows the config (lines 383-434), vapidKey
\* (line 442) or serverKey (line 486): nothing is left to click or edit
UserMay ==
    /\ ops < MaxOps
    /\ ~RenderThrows(firebaseConfig)
    /\ StringOf(vapidKey) # <<-1>>
    /\ StringOf(serverKey) # <<-1>>

(***************************************************************************)
(* Editing the form                                                        *)
(***************************************************************************)
\* handleConfigChange(key, value), from the onChange of an input that shows
\* firebaseConfig[key].  When the next render throws, the component is
\* unmounted: the setState calls of a send still in flight change nothing
\* any more.
handleConfigChange ==
    /\ UserMay
    /\ \E key \in Inputs.EditedKeys, value \in Inputs.FieldValues :
          /\ StringOf(Prop(firebaseConfig, key)) # value
          /\ firebaseConfig' = SpreadWith(firebaseConfig, key, value)
    /\ run' = IF RenderThrows(firebaseConfig') THEN <<>> ELSE run
    /\ ops' = ops + 1
    /\ UNCHANGED <<vapidKey, serverKey, pushPayload, targetToken, lifeVars, uiVars,
                   sdkVars, browserVars, workerVars, pageHist, workerHist>>

\* onChange of the VAPID key input: setVapidKey(event.target.value)
setVapidKey ==
    /\ UserMay
    /\ \E value \in Inputs.VapidKeyValues :
          StringOf(vapidKey) # value /\ vapidKey' = JStr(value)
    /\ ops' = ops + 1
    /\ UNCHANGED <<firebaseConfig, serverKey, pushPayload, targetToken, lifeVars, uiVars,
                   sdkVars, browserVars, workerVars, run, pageHist, workerHist>>

(***************************************************************************)
(* ensureServiceWorkerRegistration, called by invocation i of              *)
(* handleInitializeFirebase or handleRequestPermissionAndToken             *)
(***************************************************************************)
\* lines 210-217: setFirebaseApp / setMessaging / appendStatus / finally of
\* handleInitializeFirebase, after ensureServiceWorkerRegistration returned
InitAfterEnsure(i) ==
    /\ firebaseApp' = run[i].app
    /\ messaging' = run[i].app
    /\ statusMessages' = appendStatus("success", Msg.InitDone)
    /\ isInitializing' = FALSE
    /\ initCompleted' = initCompleted \cup {run[i].app}
    /\ run' = Remove(run, i)
    /\ UNCHANGED <<token, getTokenLog>>

\* lines 246-249: getToken(messaging, { vapidKey: vapidKey.trim(),
\* serviceWorkerRegistration })
TokAfterEnsure(i) ==
    /\ run' = [run EXCEPT ![i].pc = "getToken"]
    /\ getTokenLog' = getTokenLog \cup
          {[messaging |-> run[i].app, vapidKey |-> Trim(run[i].vapidKey.s),
            permission |-> run[i].permission]}
    /\ UNCHANGED <<lifeVars, statusMessages, initCompleted>>

\* lines 213-217 and 259-262: the catch blocks of the two handlers, the log
\* being `log` when the error is caught
InitCatch(i, log, error) ==
    /\ statusMessages' = <<Entry("error", MessageOr(error, Msg.InitFailed))>> \o log
    /\ isInitializing' = FALSE
    /\ run' = Remove(run, i)
    /\ UNCHANGED <<firebaseApp, messaging, token>>

TokCatch(i, error) ==
    /\ statusMessages' = appendStatus("error", MessageOr(error, Msg.TokenFailed))
    /\ run' = Remove(run, i)
    /\ UNCHANGED lifeVars

Catch(i, error) ==
    IF run[i].h = "init" THEN InitCatch(i, statusMessages, error) ELSE TokCatch(i, error)

\* lines 149-156 and 178-184: the function returns the registration after
\* `worker?.postMessage(...)` to registration.active || registration.waiting,
\* `worker` being the state of the registration's worker (an installed
\* worker is the waiting one, an activating or activated worker the active
\* one); what it posted is recorded, the caller goes on
EnsureReturns(i, worker) ==
    /\ swInbox' = IF worker \in {"installed", "activating", "activated"}
                  THEN Append(swInbox, InitMessage(run[i].config))
                  ELSE swInbox
    /\ lastEnsure' = [by |-> run[i].h,
                      posted |-> worker \in {"installed", "activating", "activated"},
                      config |-> run[i].config, worker |-> worker]
    /\ IF run[i].h = "init" THEN InitAfterEnsure(i) ELSE TokAfterEnsure(i)

\* lines 146-158: getRegistration resolved with the registration there is,
\* or with undefined
EnsureGetRegistration(i) ==
    /\ run[i].pc = "getRegistration"
    /\ IF sw.state \notin {"none", "redundant"}
       THEN EnsureReturns(i, sw.state)
       ELSE /\ run' = [run EXCEPT ![i].pc = "register"]
            /\ UNCHANGED <<lifeVars, statusMessages, swInbox, ensureHist>>
    /\ UNCHANGED <<formVars, sending, sendResult, foregroundMessages, sdkVars, storage,
                   supported, apis, sw, workerVars, ops, mountedAt, afterReset,
                   lastSaved, sendHist, lastPermission, workerHist>>

\* line 158: the browser has run register(): it made a registration with an
\* installing worker when there was none, and the promise is settled with
\* the registration, which the run holds from here on
EnsureRegistered(i) ==
    /\ run[i].pc = "register"
    /\ IF sw.state \in {"none", "redundant"}
       THEN /\ sw' = [state |-> "installing", gen |-> sw.gen + 1]
            /\ swInbox' = <<>>
            /\ run' = [run EXCEPT ![i].pc = "registered", ![i].gen = sw.gen + 1]
       ELSE /\ run' = [run EXCEPT ![i].pc = "registered", ![i].gen = sw.gen]
            /\ UNCHANGED <<sw, swInbox>>
    /\ UNCHANGED <<formVars, lifeVars, uiVars, sdkVars, storage, supported, apis,
                   workerVars, ops, pageHist, workerHist>>

\* line 158: register() rejected (the script cannot be fetched or evaluated)
EnsureRegisterFails(i) ==
    /\ run[i].pc = "register"
    /\ \E error \in Inputs.Rejections : Catch(i, error)
    /\ UNCHANGED <<formVars, sending, sendResult, foregroundMessages, sdkVars,
                   browserVars, workerVars, ops, pageHist, workerHist>>

\* the state of the worker of the registration `registration` of run i (line
\* 158): that of the browser's registration while it is the same one; a
\* registration whose install failed has no worker left, also when another
\* registration has been made since
Registered(i) == IF run[i].gen = sw.gen THEN sw.state ELSE "redundant"

\* lines 159-184: the continuation after register(), the promise's executor
\* on the run's own registration; it resolves at once when there is
\* registration.active, or when there is neither registration.installing
\* nor registration.waiting, and listens for statechange on the worker
\* otherwise
EnsureAwaitActivation(i) ==
    /\ run[i].pc = "registered"
    /\ IF Registered(i) \in {"installing", "installed"}
       THEN /\ run' = [run EXCEPT ![i].pc = "statechange"]
            /\ UNCHANGED <<lifeVars, statusMessages, swInbox, ensureHist>>
       ELSE EnsureReturns(i, Registered(i))
    /\ UNCHANGED <<formVars, sending, sendResult, foregroundMessages, sdkVars, storage,
                   supported, apis, sw, workerVars, ops, mountedAt, afterReset,
                   lastSaved, sendHist, lastPermission, workerHist>>

\* lines 171-184: statechange fired with state 'activated' on the worker
\* that was listened to
EnsureActivated(i) ==
    /\ run[i].pc = "statechange"
    /\ Registered(i) = "activated"
    /\ EnsureReturns(i, "activated")
    /\ UNCHANGED <<formVars, sending, sendResult, foregroundMessages, sdkVars, storage,
                   supported, apis, sw, workerVars, ops, mountedAt, afterReset,
                   lastSaved, sendHist, lastPermission, workerHist>>

(***************************************************************************)
(* handleInitializeFirebase                                                *)
(***************************************************************************)
\* lines 188-191: the click, up to `await isSupported()`; the button is
\* disabled={!configIsComplete || isInitializing}
handleInitializeFirebase ==
    /\ UserMay
    /\ configIsComplete(firebaseConfig) /\ ~isInitializing
    /\ isInitializing' = TRUE
    /\ sendResult' = <<>>
    /\ run' = Append(run, [NewRun("init") EXCEPT !.pc = "isSupported",
                                                 !.config = firebaseConfig,
                                                 !.vapidKey = vapidKey,
                                                 !.serverKey = serverKey])
    /\ ops' = ops + 1
    /\ afterReset' = IF afterReset = "none" THEN "none" ELSE "void"
    /\ UNCHANGED <<formVars, firebaseApp, messaging, token, statusMessages, sending,
                   foregroundMessages, sdkVars, browserVars, workerVars, callHist,
                   workerHist>>

\* getMessaging may refuse options in which a required field is falsy
GetMessagingMayThrow(config) ==
    \E k \in {K.projectId, K.apiKey, K.appId, K.messagingSenderId} :
        ~Truthy(Prop(config, k))

\* lines 205-208: initializeApp, getMessaging, and the call of
\* ensureServiceWorkerRegistration up to its first await (lines 142-146).
\* What is thrown here is caught at line 213 before anything else runs;
\* `log` is the status log when these lines are reached.
InitCreatesApp(i, log) ==
    \/ /\ "serviceWorker" \in apis
       /\ apps' = nextApp
       /\ nextApp' = nextApp + 1
       /\ run' = [run EXCEPT ![i].pc = "getRegistration", ![i].app = nextApp]
       /\ statusMessages' = log
       /\ UNCHANGED lifeVars
    \/ /\ "serviceWorker" \notin apis
       /\ apps' = nextApp
       /\ nextApp' = nextApp + 1
       /\ InitCatch(i, log, [hasMessage |-> TRUE, message |-> Msg.NoServiceWorker])
    \/ /\ ~Truthy(run[i].config)   \* initializeApp may refuse options that are falsy
       /\ \E error \in {e \in Inputs.Rejections : e.hasMessage} : InitCatch(i, log, error)
       /\ UNCHANGED <<apps, nextApp>>
    \/ /\ GetMessagingMayThrow(run[i].config)
       /\ apps' = nextApp
       /\ nextApp' = nextApp + 1
       /\ \E error \in {e \in Inputs.Rejections : e.hasMessage} : InitCatch(i, log, error)

\* lines 192-195: isSupported() resolved false
InitUnsupported(i) ==
    /\ At(i, "init", "isSupported")
    /\ ~supported
    /\ statusMessages' = appendStatus("error", Msg.Unsupported)
    /\ isInitializing' = FALSE
    /\ run' = Remove(run, i)
    /\ UNCHANGED <<formVars, firebaseApp, messaging, token, sending, sendResult,
                   foregroundMessages, sdkVars, browserVars, workerVars, ops, pageHist,
                   workerHist>>

\* lines 196-208: isSupported() resolved true: the settings are saved
\* (line 196: saveSettings(firebaseConfig, vapidKey, serverKey), with the
\* values of the render the handler was created in), the registered app (if
\* any) is being deleted, or the new app is created.  localStorage.setItem
\* may throw (the quota is exceeded, storage is denied): nothing is stored
\* and the catch of line 213 ends the run.
InitSupported(i) ==
    /\ At(i, "init", "isSupported")
    /\ supported
    /\ \/ /\ storage' = saveSettings(run[i].config, run[i].vapidKey, run[i].serverKey)
          /\ lastSaved' = [valid |-> TRUE, stored |-> TRUE, config |-> run[i].config,
                           vapidKey |-> run[i].vapidKey, serverKey |-> run[i].serverKey]
          /\ IF apps # 0
             THEN /\ apps' = 0
                  /\ run' = [run EXCEPT ![i].pc = "deleteApp", ![i].app = apps]
                  /\ UNCHANGED <<nextApp, lifeVars, statusMessages>>
             ELSE InitCreatesApp(i, statusMessages)
       \/ /\ lastSaved' = [valid |-> TRUE, stored |-> FALSE, config |-> run[i].config,
                           vapidKey |-> run[i].vapidKey, serverKey |-> run[i].serverKey]
          /\ \E error \in {e \in Inputs.Rejections : e.hasMessage} :
                InitCatch(i, statusMessages, error)
          /\ UNCHANGED <<storage, apps, nextApp>>
    /\ UNCHANGED <<formVars, sending, sendResult, foregroundMessages, deleted,
                   supported, apis, sw, swInbox, workerVars, ops, mountedAt, afterReset,
                   ensureHist, sendHist, lastPermission, workerHist>>

\* lines 201-208: the deleteApp promises resolved
InitAppsDeleted(i) ==
    /\ At(i, "init", "deleteApp")
    /\ deleted' = deleted \cup {run[i].app}
    /\ InitCreatesApp(i, appendStatus("info", Msg.AppsReset))
    /\ UNCHANGED <<formVars, sending, sendResult, foregroundMessages, browserVars,
                   workerVars, ops, pageHist, workerHist>>

\* line 201: a deleteApp promise rejected
InitDeleteFails(i) ==
    /\ At(i, "init", "deleteApp")
    /\ \E error \in Inputs.Rejections : InitCatch(i, statusMessages, error)
    /\ UNCHANGED <<formVars, sending, sendResult, foregroundMessages, sdkVars,
                   browserVars, workerVars, ops, pageHist, workerHist>>

(***************************************************************************)
(* handleRequestPermissionAndToken                                         *)
(***************************************************************************)

\* every answer taken for a grant
Granted_Always(permission) == TRUE

\* permission !== 'granted' is the refusal
Granted(permission) == permission = "granted"

\* the guard of line 222 left out
MessagingMissing_NoGuard == FALSE

\* !messaging
MessagingMissing == messaging = 0

\* lines 222-239: the click, up to `await Notification.requestPermission()`.
\* vapidKey.trim() of line 227 is outside the try: with a VAPID key that is
\* not a string the handler ends there with a TypeError nobody catches.
handleRequestPermissionAndToken ==
    /\ UserMay
    /\ ops' = ops + 1
    /\ IF MessagingMissing
       THEN /\ statusMessages' = appendStatus("error", Msg.MessagingMissing)
            /\ UNCHANGED run
       ELSE IF vapidKey.t # "str"
       THEN UNCHANGED <<statusMessages, run>>
       ELSE IF IsBlank(vapidKey.s)
       THEN /\ statusMessages' = appendStatus("error", Msg.VapidRequired)
            /\ UNCHANGED run
       ELSE IF "Notification" \notin apis
       THEN /\ statusMessages' = appendStatus("error", Msg.NotificationUnsupported)
            /\ UNCHANGED run
       ELSE /\ run' = Append(run, [NewRun("tok") EXCEPT !.pc = "requestPermission",
                                                        !.config = firebaseConfig,
                                                        !.vapidKey = vapidKey,
                                                        !.app = messaging])
            /\ UNCHANGED statusMessages
    /\ afterReset' = IF afterReset = "none" THEN "none" ELSE "void"
    /\ UNCHANGED <<formVars, lifeVars, sending, sendResult, foregroundMessages, sdkVars,
                   browserVars, workerVars, callHist, workerHist>>

\* lines 239-245: requestPermission resolved; with a grant,
\* ensureServiceWorkerRegistration is called and runs up to its first await
TokPermissionResolved(i) ==
    /\ At(i, "tok", "requestPermission")
    /\ \E permission \in Inputs.PermissionResults :
          /\ lastPermission' = [n |-> lastPermission.n + 1, permission |-> permission]
          /\ IF ~Granted(permission)
             THEN /\ statusMessages' = appendStatus("error", Msg.PermissionDenied)
                  /\ run' = Remove(run, i)
             ELSE IF "serviceWorker" \notin apis
             THEN /\ statusMessages' = appendStatus("error", Msg.NoServiceWorker)
                  /\ run' = Remove(run, i)
             ELSE /\ run' = [run EXCEPT ![i].pc = "getRegistration",
                                        ![i].permission = permission]
                  /\ UNCHANGED statusMessages
    /\ UNCHANGED <<formVars, lifeVars, sending, sendResult, foregroundMessages, sdkVars,
                   browserVars, workerVars, ops, mountedAt, afterReset, ensureHist,
                   lastSaved, sendHist, workerHist>>

\* lines 251-258: getToken resolved with a token, or with nothing
TokGetTokenResolved(i) ==
    /\ At(i, "tok", "getToken")
    /\ \E currentToken \in Inputs.TokenValues \cup {<<>>} :
          IF currentToken = <<>>
          THEN /\ statusMessages' = appendStatus("error", Msg.TokenEmpty)
               /\ UNCHANGED <<token, targetToken>>
          ELSE /\ token' = currentToken
               /\ targetToken' = currentToken
               /\ statusMessages' = appendStatus("success", Msg.TokenIssued)
    /\ run' = Remove(run, i)
    /\ UNCHANGED <<firebaseConfig, vapidKey, serverKey, pushPayload, firebaseApp,
                   messaging, isInitializing, sending, sendResult, foregroundMessages,
                   sdkVars, browserVars, workerVars, ops, pageHist, workerHist>>

\* lines 259-262: getToken rejected
TokGetTokenFails(i) ==
    /\ At(i, "tok", "getToken")
    /\ \E error \in Inputs.Rejections : TokCatch(i, error)
    /\ UNCHANGED <<formVars, sending, sendResult, foregroundMessages, sdkVars,
                   browserVars, workerVars, ops, pageHist, workerHist>>

(***************************************************************************)
(* resetFirebase                                                           *)
(***************************************************************************)
\* lines 339-350: the click.  deleteApp unregisters the app registered under
\* the app's name, if there is one, and then awaits the deletion of the held
\* app's services; with no app registered it has nothing to await, and the
\* handler runs to its end before anything else does.
resetFirebase ==
    /\ UserMay
    /\ ops' = ops + 1
    /\ token' = <<>>
    /\ foregroundMessages' = <<>>
    /\ IF firebaseApp = 0
       THEN /\ afterReset' = "done"
            /\ UNCHANGED <<run, apps, firebaseApp, messaging, statusMessages>>
       ELSE IF apps = 0
       THEN /\ statusMessages' = appendStatus("info", Msg.AppReleased)
            /\ firebaseApp' = 0
            /\ messaging' = 0
            /\ afterReset' = "done"
            /\ UNCHANGED <<run, apps>>
       ELSE /\ run' = Append(run, [NewRun("reset") EXCEPT !.pc = "deleteApp",
                                                          !.app = firebaseApp])
            /\ apps' = 0
            /\ afterReset' = "running"
            /\ UNCHANGED <<firebaseApp, messaging, statusMessages>>
    /\ UNCHANGED <<formVars, isInitializing, sending, sendResult, deleted, nextApp,
                   browserVars, workerVars, callHist, workerHist>>

\* lines 343-350: deleteApp resolved, the held app is marked deleted
ResetAppDeleted(i) ==
    /\ At(i, "reset", "deleteApp")
    /\ deleted' = deleted \cup {run[i].app}
    /\ statusMessages' = appendStatus("info", Msg.AppReleased)
    /\ firebaseApp' = 0
    /\ messaging' = 0
    /\ run' = Remove(run, i)
    /\ afterReset' = IF afterReset = "running" THEN "done" ELSE afterReset
    /\ UNCHANGED <<formVars, isInitializing, token, sending, sendResult,
                   foregroundMessages, apps, nextApp, browserVars, workerVars, ops,
                   callHist, workerHist>>

\* lines 345-350: deleteApp rejected
ResetDeleteFails(i) ==
    /\ At(i, "reset", "deleteApp")
    /\ firebaseApp' = 0
    /\ messaging' = 0
    /\ run' = Remove(run, i)
    /\ afterReset' = IF afterReset = "running" THEN "done" ELSE afterReset
    /\ UNCHANGED <<formVars, isInitializing, token, uiVars, sdkVars, browserVars,
                   workerVars, ops, callHist, workerHist>>

(***************************************************************************)
(* handleCopyToken                                                         *)
(***************************************************************************)
\* lines 265-273: the click (the button is disabled without a token), up to
\* `await navigator.clipboard.writeText(token)`; without navigator.clipboard
\* the call throws inside the try
handleCopyToken ==
    /\ UserMay
    /\ token # <<>>
    /\ ops' = ops + 1
    /\ IF "clipboard" \in apis
       THEN /\ run' = Append(run, [NewRun("copy") EXCEPT !.pc = "writeText"])
            /\ UNCHANGED statusMessages
       ELSE /\ statusMessages' = appendStatus("error", Msg.CopyFailed)
            /\ UNCHANGED run
    /\ UNCHANGED <<formVars, lifeVars, sending, sendResult, foregroundMessages, sdkVars,
                   browserVars, workerVars, pageHist, workerHist>>

\* line 269: writeText resolved
CopyResolved(i) ==
    /\ At(i, "copy", "writeText")
    /\ statusMessages' = appendStatus("success", Msg.Copied)
    /\ run' = Remove(run, i)
    /\ UNCHANGED <<formVars, lifeVars, sending, sendResult, foregroundMessages, sdkVars,
                   browserVars, workerVars, ops, pageHist, workerHist>>

\* lines 270-272: writeText rejected
CopyRejected(i) ==
    /\ At(i, "copy", "writeText")
    /\ statusMessages' = appendStatus("error", Msg.CopyFailed)
    /\ run' = Remove(run, i)
    /\ UNCHANGED <<formVars, lifeVars, sending, sendResult, foregroundMessages, sdkVars,
                   browserVars, workerVars, ops, pageHist, workerHist>>

(***************************************************************************)
(* handleSendPush                                                          *)
(***************************************************************************)


\* the checks without the one of the target token
SendInputProblem_NoTokenCheck ==
    IF IsBlank(serverKey.s) THEN Msg.ServerKeyRequired
    ELSE IF parseDataPayload(pushPayload.data).threw THEN Msg.InvalidData
    ELSE <<>>

\* the three checks before the request is built (lines 277-293), for a
\* server key that is a string
SendInputProblem ==
    IF IsBlank(serverKey.s) THEN Msg.ServerKeyRequired
    ELSE IF IsBlank(targetToken) THEN Msg.TargetRequired
    ELSE IF parseDataPayload(pushPayload.data).threw THEN Msg.InvalidData
    ELSE <<>>

\* lines 276-310: the click (the button is disabled while sending), up to
\* `await fetch(...)`.  serverKey.trim() of line 277 is outside the try: with
\* a server key that is not a string the handler ends there with a TypeError
\* nobody catches.
handleSendPush ==
    /\ UserMay
    /\ ~sending
    /\ ops' = ops + 1
    /\ sendClicks' = sendClicks + 1
    /\ sendResult' = <<>>
    /\ IF serverKey.t # "str"
       THEN UNCHANGED <<statusMessages, sending, run, fetchCalls>>
       ELSE IF SendInputProblem # <<>>
       THEN /\ statusMessages' = appendStatus("error", SendInputProblem)
            /\ UNCHANGED <<sending, run, fetchCalls>>
       ELSE /\ sending' = TRUE
            /\ fetchCalls' = fetchCalls + 1
            /\ run' = Append(run, [NewRun("send") EXCEPT !.pc = "fetch"])
            /\ UNCHANGED statusMessages
    /\ UNCHANGED <<formVars, lifeVars, foregroundMessages, sdkVars, browserVars,
                   workerVars, mountedAt, afterReset, ensureHist, lastSaved, lastFetch,
                   lastPermission, workerHist>>

\* line 310: fetch resolved with a response, whose body is read next
SendFetchResolved(i) ==
    /\ At(i, "send", "fetch")
    /\ \E status \in Inputs.Statuses :
          run' = [run EXCEPT ![i].pc = "text", ![i].ok = status \in 200..299,
                             ![i].status = status]
    /\ UNCHANGED <<formVars, lifeVars, uiVars, sdkVars, browserVars, workerVars, ops,
                   pageHist, workerHist>>

\* lines 319-335: response.text() resolved
SendTextResolved(i) ==
    /\ At(i, "send", "text")
    /\ \E resultText \in Inputs.ResultTexts :
          IF run[i].ok
          THEN /\ sendResult' = resultText
               /\ statusMessages' = appendStatus("success", Msg.SendDone)
               /\ lastFetch' = [n |-> lastFetch.n + 1, outcome |-> "ok"]
          ELSE /\ statusMessages' = appendStatus("error", Msg.SendError)
               /\ sendResult' =
                     MessageOr([hasMessage |-> TRUE,
                                message |-> SendFailedMessage(run[i].status, resultText)],
                               Msg.ErrorOccurred)
               /\ lastFetch' = [n |-> lastFetch.n + 1, outcome |-> "not-ok"]
    /\ sending' = FALSE
    /\ run' = Remove(run, i)
    /\ UNCHANGED <<formVars, lifeVars, foregroundMessages, sdkVars, browserVars,
                   workerVars, ops, mountedAt, afterReset, ensureHist, lastSaved,
                   sendClicks, fetchCalls, lastPermission, workerHist>>

\* lines 327-335: fetch, or reading the body, rejected
SendRejected(i) ==
    /\ run[i].h = "send"
    /\ run[i].pc \in {"fetch", "text"}
    /\ \E error \in Inputs.Rejections : sendResult' = MessageOr(error, Msg.ErrorOccurred)
    /\ statusMessages' = appendStatus("error", Msg.SendError)
    /\ lastFetch' = [n |-> lastFetch.n + 1, outcome |-> "rejected"]
    /\ sending' = FALSE
    /\ run' = Remove(run, i)
    /\ UNCHANGED <<formVars, lifeVars, foregroundMessages, sdkVars, browserVars,
                   workerVars, ops, mountedAt, afterReset, ensureHist, lastSaved,
                   sendClicks, fetchCalls, lastPermission, workerHist>>

\* onChange of the server key input: setServerKey(event.target.value)
setServerKey ==
    /\ UserMay
    /\ \E value \in Inputs.ServerKeyValues :
          StringOf(serverKey) # value /\ serverKey' = JStr(value)
    /\ ops' = ops + 1
    /\ UNCHANGED <<firebaseConfig, vapidKey, pushPayload, targetToken, lifeVars, uiVars,
                   sdkVars, browserVars, workerVars, run, pageHist, workerHist>>

\* onChange of the target token textarea
setTargetToken ==
    /\ UserMay
    /\ \E value \in Inputs.TargetTokenValues : value # targetToken /\ targetToken' = value
    /\ ops' = ops + 1
    /\ UNCHANGED <<firebaseConfig, vapidKey, serverKey, pushPayload, lifeVars, uiVars,
                   sdkVars, browserVars, workerVars, run, pageHist, workerHist>>

\* onChange of the data textarea: setPushPayload((prev) => ({ ...prev, data }))
setPushPayload ==
    /\ UserMay
    /\ \E value \in Inputs.DataValues :
          /\ value # pushPayload.data
          /\ pushPayload' = [pushPayload EXCEPT !.data = value]
    /\ ops' = ops + 1
    /\ UNCHANGED <<firebaseConfig, vapidKey, serverKey, targetToken, lifeVars, uiVars,
                   sdkVars, browserVars, workerVars, run, pageHist, workerHist>>

(***************************************************************************)
(* The page: foreground messages, reload and mount                         *)
(***************************************************************************)
\* lines 123-131: the onMessage subscription, held while messaging is set
onMessage ==
    /\ UserMay
    /\ messaging # 0
    /\ ops' = ops + 1
    /\ foregroundMessages' = <<"payload">> \o foregroundMessages
    /\ statusMessages' = appendStatus("success", Msg.Foreground)
    /\ UNCHANGED <<formVars, lifeVars, sending, sendResult, sdkVars, browserVars,
                   workerVars, run, pageHist, workerHist>>

\* the page is loaded again (also after a render has thrown): a new
\* component (useState initial values, then the mount effect of lines
\* 114-121) and a new SDK, the same localStorage and service-worker
\* registration
Reload ==
    /\ ops < MaxOps
    /\ ops' = ops + 1
    /\ \E form \in {MountedForm(storage)} :
          /\ firebaseConfig' = form.config
          /\ vapidKey' = form.vapidKey
          /\ serverKey' = form.serverKey
    /\ firebaseApp' = 0
    /\ messaging' = 0
    /\ isInitializing' = FALSE
    /\ token' = <<>>
    /\ statusMessages' = <<>>
    /\ pushPayload' = [data |-> initialData]
    /\ targetToken' = <<>>
    /\ sending' = FALSE
    /\ sendResult' = <<>>
    /\ foregroundMessages' = <<>>
    /\ run' = <<>>
    /\ apps' = 0
    /\ mountedAt' = ops + 1
    /\ afterReset' = "none"
    /\ UNCHANGED <<deleted, nextApp, browserVars, workerVars, ensureHist, lastSaved,
                   sendHist, lastPermission, workerHist>>

(***************************************************************************)
(* The browser's service-worker lifecycle                                  *)
(***************************************************************************)
WorkerInstalled ==
    /\ sw.state = "installing"
    /\ sw' = [sw EXCEPT !.state = "installed"]
    /\ UNCHANGED <<formVars, lifeVars, uiVars, sdkVars, storage, supported, apis,
                   swInbox, workerVars, run, ops, pageHist, workerHist>>

\* the install fails: the worker becomes redundant, the registration is gone
WorkerInstallFails ==
    /\ sw.state = "installing"
    /\ sw' = [sw EXCEPT !.state = "redundant"]
    /\ UNCHANGED <<formVars, lifeVars, uiVars, sdkVars, storage, supported, apis,
                   swInbox, workerVars, run, ops, pageHist, workerHist>>

WorkerActivating ==
    /\ sw.state = "installed"
    /\ sw' = [sw EXCEPT !.state = "activating"]
    /\ UNCHANGED <<formVars, lifeVars, uiVars, sdkVars, storage, supported, apis,
                   swInbox, workerVars, run, ops, pageHist, workerHist>>

WorkerActivated ==
    /\ sw.state = "activating"
    /\ sw' = [sw EXCEPT !.state = "activated"]
    /\ UNCHANGED <<formVars, lifeVars, uiVars, sdkVars, storage, supported, apis,
                   swInbox, workerVars, run, ops, pageHist, workerHist>>

(***************************************************************************)
(* The service worker script (firebase-messaging-sw.js)                    *)
(***************************************************************************)
\* bound on the events (messages posted, pushes) the worker is given
MaxEvents == 4

\* firebase.apps of the worker: no app, or the app with its options
Absent == [present |-> FALSE, config |-> JUndef]
Present(config) == [present |-> TRUE, config |-> config]

\* what a client may post to the worker: event.data with its type and config
WorkerMessages ==
    {InitMessage(ConfigA), InitMessage(ConfigB), InitMessage(JNull),
     InitMessage(JStr(T(<<"a">>))), InitMessage(JUndef), InitMessage(JArr(<<>>)),
     [type |-> "OTHER", config |-> ConfigA]}


\* a client posts a message to the worker
ClientPosts ==
    /\ ops < MaxEvents
    /\ ops' = ops + 1
    /\ \E message \in WorkerMessages : swInbox' = Append(swInbox, message)
    /\ UNCHANGED <<formVars, lifeVars, uiVars, sdkVars, storage, supported, apis, sw,
                   workerVars, run, pageHist, workerHist>>

\* line 13: the app is created only when the worker has none
AppAfterInit(config) == IF swApp.present THEN swApp ELSE Present(config)

\* lines 37-41 and initializeMessaging (lines 8-35): the message listener
\* handles the oldest posted message.  firebase.messaging() of line 18 may
\* refuse the app's options as getMessaging does; the listener then ends
\* with the app created and nothing else done.
OnWorkerMessage ==
    /\ swInbox # <<>>
    /\ swInbox' = Tail(swInbox)
    /\ LET message == Head(swInbox) IN
       IF message.type = "INIT_FIREBASE" /\ Truthy(message.config)
          /\ message.config.t \in {"obj", "arr"}
       THEN /\ swApp' = AppAfterInit(message.config)
            /\ lastInitMsg' = Present(message.config)
            /\ IF swSupported
               THEN \/ /\ messagingInstance' = Present(AppAfterInit(message.config).config)
                       /\ backgroundHandlerRegistered' = TRUE
                       /\ handlerRegistrations' =
                             IF backgroundHandlerRegistered THEN handlerRegistrations
                             ELSE handlerRegistrations + 1
                    \/ /\ GetMessagingMayThrow(AppAfterInit(message.config).config)
                       /\ UNCHANGED <<messagingInstance, backgroundHandlerRegistered,
                                      handlerRegistrations>>
               ELSE UNCHANGED <<messagingInstance, backgroundHandlerRegistered,
                                handlerRegistrations>>
       ELSE UNCHANGED <<swApp, messagingInstance, backgroundHandlerRegistered,
                        lastInitMsg, handlerRegistrations>>
    /\ UNCHANGED <<formVars, lifeVars, uiVars, sdkVars, storage, supported, apis, sw,
                   swSupported, run, ops, pageHist, lastPush>>

\* event.data of a push event: nothing, or a text
PushDataValues ==
    {[present |-> FALSE, text |-> <<>>]}
    \cup {[present |-> TRUE, text |-> t] :
             t \in {T(<<"{">>), T(<<"n", "u", "l", "l">>), T(<<"{", "}">>), T(<<"1">>)}}

\* lines 48-63 of the push listener: one showNotification, unless there is
\* no data, json() throws, or reading payload.notification throws (null)
FallbackShows(data) ==
    /\ data.present
    /\ JSONParse(data.text).ok
    /\ JSONParse(data.text).val # JNull

\* the early return of line 44 left out
FallbackReturnsEarly_Never == FALSE

\* line 44: if (messagingInstance) return
FallbackReturnsEarly == messagingInstance.present

\* lines 43-64 and the handler of lines 21-30: a push event.  With a
\* messaging instance the listener returns and the SDK decides whether it
\* calls the background handler, which shows one notification.
OnPush ==
    /\ ops < MaxEvents
    /\ ops' = ops + 1
    /\ \E data \in PushDataValues, sdkCallsHandler \in BOOLEAN :
          lastPush' =
             [seen |-> TRUE, data |-> data, instance |-> messagingInstance.present,
              byHandler |-> IF messagingInstance.present /\ backgroundHandlerRegistered
                               /\ sdkCallsHandler THEN 1 ELSE 0,
              byFallback |-> IF ~FallbackReturnsEarly /\ FallbackShows(data)
                             THEN 1 ELSE 0]
    /\ UNCHANGED <<formVars, lifeVars, uiVars, sdkVars, browserVars, workerVars, run,
                   pageHist, lastInitMsg, handlerRegistrations>>

(***************************************************************************)
(* Specifications                                                          *)
(***************************************************************************)
\* settings a developer saved in an earlier session
Saved ==
    [ A |-> saveSettings(ConfigA, JStr(T(<<" ", "v", " ">>)), JStr(<<>>)),
      B |-> saveSettings(ConfigB, JStr(T(<<"\"", "\\">>)), JStr(T(<<" ", "k">>))),
      \* texts another writer left under the storage key:
      \* {"config":{"apiKey":"a"},"vapidKey":5}, {} and
      \* {"config":{"apiKey":" ","x":5}}
      Partial |->
          Stored(T(<<"{", "\"", "c", "o", "n", "f", "i", "g", "\"", ":", "{", "\"", "a",
                     "p", "i", "K", "e", "y", "\"", ":", "\"", "a", "\"", "}", ",", "\"",
                     "v", "a", "p", "i", "d", "K", "e", "y", "\"", ":", "5", "}">>)),
      \* {"config":<configuration A>,"vapidKey":1000000000000000000001,
      \*  "serverKey":1.50}: a number with more digits than a double holds
      \* (the nearest double is 1e+21) and one that is not written as
      \* String writes it (1.5)
      Numbers |->
          Stored(T(<<"{", "\"", "c", "o", "n", "f", "i", "g", "\"", ":">>)
                 \o Stringify(ConfigA)
                 \o T(<<",", "\"", "v", "a", "p", "i", "d", "K", "e", "y", "\"",
                        ":", "1", "0", "0", "0", "0", "0", "0", "0", "0", "0", "0",
                        "0", "0", "0", "0", "0", "0", "0", "0", "0", "0", "1", ",",
                        "\"", "s", "e", "r", "v", "e", "r", "K", "e", "y", "\"",
                        ":", "1", ".", "5", "0", "}">>)),
      \* {"config":<configuration A>,"vapidKey":1e400}: a number beyond the
      \* doubles, which JSON.parse reads as Infinity
      Overflow |->
          Stored(T(<<"{", "\"", "c", "o", "n", "f", "i", "g", "\"", ":">>)
                 \o Stringify(ConfigA)
                 \o T(<<",", "\"", "v", "a", "p", "i", "d", "K", "e", "y", "\"",
                        ":", "1", "e", "4", "0", "0", "}">>)),
      \* {"config":<configuration A>,"vapidKey":{"toString":5}}: a value the
      \* VAPID key input cannot show
      ToStringMember |->
          Stored(T(<<"{", "\"", "c", "o", "n", "f", "i", "g", "\"", ":">>)
                 \o Stringify(ConfigA)
                 \o T(<<",", "\"", "v", "a", "p", "i", "d", "K", "e", "y", "\"",
                        ":", "{", "\"", "t", "o", "S", "t", "r", "i", "n", "g", "\"",
                        ":", "5", "}", "}">>)),
      EmptyObject |-> Stored(T(<<"{", "}">>)),
      OddConfig |->
          Stored(T(<<"{", "\"", "c", "o", "n", "f", "i", "g", "\"", ":", "{", "\"", "a",
                     "p", "i", "K", "e", "y", "\"", ":", "\"", " ", "\"", ",", "\"", "x",
                     "\"", ":", "5", "}", "}">>)) ]

\* the browsers the page is opened in: isSupported() and the APIs present
Browser(isSupp, present) == [supported |-> isSupp, apis |-> present]
Browsers ==
    [ Full |-> {Browser(TRUE, Inputs.AllApis), Browser(FALSE, Inputs.AllApis)},
      \* browsers that lack the clipboard, the Notification API, service
      \* workers
      Partial |-> {Browser(TRUE, {"Notification", "serviceWorker"}),
                   Browser(TRUE, {"serviceWorker", "clipboard"}),
                   Browser(TRUE, {"Notification", "clipboard"})} ]

\* the state after construction and mount, for the given environment
InitWith(store, browser, workerState, workerSupp) ==
    /\ \E form \in {MountedForm(store)} :
          /\ firebaseConfig = form.config
          /\ vapidKey = form.vapidKey
          /\ serverKey = form.serverKey
    /\ firebaseApp = 0
    /\ messaging = 0
    /\ isInitializing = FALSE
    /\ token = <<>>
    /\ statusMessages = <<>>
    /\ pushPayload = [data |-> initialData]
    /\ targetToken = <<>>
    /\ sending = FALSE
    /\ sendResult = <<>>
    /\ foregroundMessages = <<>>
    /\ apps = 0
    /\ deleted = {}
    /\ nextApp = 1
    /\ storage = store
    /\ supported = browser.supported
    /\ apis = browser.apis
    /\ sw = [state |-> workerState, gen |-> IF workerState = "none" THEN 0 ELSE 1]
    /\ swInbox = <<>>
    /\ swApp = Absent
    /\ messagingInstance = Absent
    /\ backgroundHandlerRegistered = FALSE
    /\ swSupported = workerSupp
    /\ run = <<>>
    /\ ops = 0
    /\ mountedAt = 0
    /\ afterReset = "none"
    /\ lastEnsure = [by |-> "none", posted |-> FALSE, config |-> JUndef, worker |-> "none"]
    /\ getTokenLog = {}
    /\ initCompleted = {}
    /\ lastSaved = [valid |-> FALSE, stored |-> FALSE, config |-> JUndef,
                    vapidKey |-> JUndef, serverKey |-> JUndef]
    /\ sendClicks = 0
    /\ fetchCalls = 0
    /\ lastFetch = [n |-> 0, outcome |-> "none"]
    /\ lastPermission = [n |-> 0, permission |-> "none"]
    /\ lastInitMsg = Absent
    /\ lastPush = [seen |-> FALSE, data |-> [present |-> FALSE, text |-> <<>>], instance |-> FALSE,
                   byHandler |-> 0, byFallback |-> 0]
    /\ handlerRegistrations = 0

\* the steps of the handlers inside ensureServiceWorkerRegistration
Ensure ==
    \E i \in 1..Len(run) :
        \/ EnsureGetRegistration(i)
        \/ EnsureRegistered(i)
        \/ EnsureRegisterFails(i)
        \/ EnsureAwaitActivation(i)
        \/ EnsureActivated(i)

WorkerLifecycle ==
    \/ WorkerInstalled
    \/ WorkerInstallFails
    \/ WorkerActivating
    \/ WorkerActivated

\* the steps of handleSendPush after its click
SendSteps ==
    \/ \E i \in 1..Len(run) : SendFetchResolved(i)
    \/ \E i \in 1..Len(run) : SendTextResolved(i)
    \/ \E i \in 1..Len(run) : SendRejected(i)

\* the steps the event loop takes for the suspended handlers of the
\* lifecycle
HandlerSteps ==
    \/ \E i \in 1..Len(run) : InitUnsupported(i)
    \/ \E i \in 1..Len(run) : InitSupported(i)
    \/ \E i \in 1..Len(run) : InitAppsDeleted(i)
    \/ \E i \in 1..Len(run) : InitDeleteFails(i)
    \/ \E i \in 1..Len(run) : TokPermissionResolved(i)
    \/ \E i \in 1..Len(run) : TokGetTokenResolved(i)
    \/ \E i \in 1..Len(run) : TokGetTokenFails(i)
    \/ \E i \in 1..Len(run) : ResetAppDeleted(i)
    \/ \E i \in 1..Len(run) : ResetDeleteFails(i)
    \/ \E i \in 1..Len(run) : CopyResolved(i)
    \/ \E i \in 1..Len(run) : CopyRejected(i)
    \/ Ensure

\* the page in the environments it may be opened in
Init ==
    \/ \E store \in {NoStorage, Saved.A}, browser \in Browsers.Full,
          workerState \in {"none", "installing", "installed", "activated"} :
           InitWith(store, browser, workerState, TRUE)
    \/ \E browser \in Browsers.Partial : InitWith(Saved.A, browser, "activated", TRUE)
    \/ \E workerState \in {"none", "activated"} :
           InitWith(Saved.Partial, Browser(TRUE, Inputs.AllApis), workerState, TRUE)

Next ==
    \/ handleConfigChange
    \/ setVapidKey
    \/ setServerKey
    \/ setTargetToken
    \/ setPushPayload
    \/ handleInitializeFirebase
    \/ handleRequestPermissionAndToken
    \/ handleCopyToken
    \/ handleSendPush
    \/ resetFirebase
    \/ onMessage
    \/ Reload
    \/ HandlerSteps
    \/ SendSteps
    \/ WorkerLifecycle

Spec == Init /\ [][Next]_vars

\* the lifecycle under the event loop's and the browser's scheduling: a
\* settled promise's continuation runs, and the browser moves a worker on
FairSpec ==
    /\ Spec
    /\ WF_vars(HandlerSteps)
    /\ WF_vars(WorkerInstalled \/ WorkerInstallFails)
    /\ WF_vars(WorkerActivating)
    /\ WF_vars(WorkerActivated)

\* sending a push: the fields handleSendPush reads, as the form and the
\* settings the page saved give them, and the request
InitSend ==
    \E store \in {NoStorage, Saved.A, Saved.B} :
        InitWith(store, Browser(TRUE, Inputs.AllApis), "activated", TRUE)

NextSend ==
    \/ setServerKey
    \/ setTargetToken
    \/ setPushPayload
    \/ handleSendPush
    \/ SendSteps

SpecSend == InitSend /\ [][NextSend]_vars

\* the settings in localStorage under every operation of the page: a first
\* visit, with nothing or with the text of another writer stored and no
\* service worker registered; a later visit, with the settings of an earlier
\* session (as saved, or edited since) and the worker that session registered
\* active; and a browser without messaging support
InitSettings ==
    \/ \E store \in {NoStorage, Stored(<<>>), Stored(T(<<"{">>)), Saved.Partial,
                     Saved.EmptyObject, Saved.OddConfig, Saved.ToStringMember} :
           InitWith(store, Browser(TRUE, Inputs.AllApis), "none", TRUE)
    \/ \E store \in {Saved.B, Saved.Numbers, Saved.Overflow} :
           InitWith(store, Browser(TRUE, Inputs.AllApis), "activated", TRUE)
    \/ InitWith(Saved.A, Browser(FALSE, Inputs.AllApis), "none", TRUE)

SpecSettings == InitSettings /\ [][Next]_vars

\* the service worker script under posted messages and push events
InitWorker ==
    \E workerSupp \in BOOLEAN :
        InitWith(NoStorage, Browser(TRUE, Inputs.AllApis), "activated", workerSupp)

NextWorker ==
    \/ ClientPosts
    \/ OnWorkerMessage
    \/ OnPush

SpecWorker == InitWorker /\ [][NextWorker]_vars

(***************************************************************************)
(* Properties                                                              *)
(***************************************************************************)
ErrorEntry(text) == Entry("error", text)

\* the invocations of handler h that are suspended
InFlight(h) == {i \in 1..Len(run) : run[i].h = h}

\* C1: getToken is called, and token is set, only after an initialization
\* run completed ensureServiceWorkerRegistration for the messaging instance
\* it is called with, and only with permission 'granted' in the same
\* invocation and a non-blank VAPID key.
C1_TokenOnlyAfterLifecycle ==
    /\ \A call \in getTokenLog :
          /\ call.messaging # 0
          /\ call.messaging \in initCompleted
          /\ call.permission = "granted"
          /\ call.vapidKey # <<>>
    /\ \A i \in InFlight("tok") :
          /\ run[i].app # 0
          /\ run[i].app \in initCompleted
          /\ run[i].vapidKey.t = "str"
          /\ ~IsBlank(run[i].vapidKey.s)
          /\ run[i].pc # "requestPermission" => run[i].permission = "granted"
    /\ token # <<>> => getTokenLog # {}
    /\ messaging # 0 => messaging \in initCompleted

C1_Witness == token # <<>> /\ messaging # 0

\* C2: whenever ensureServiceWorkerRegistration returns, it has posted
\* INIT_FIREBASE with the config to the registration's worker.
C2_PostedOnReturn ==
    lastEnsure.by # "none" => lastEnsure.posted

\* C5: when requestPermission resolves to anything but 'granted', exactly
\* one error entry is added, the invocation ends without getToken and
\* without touching the service-worker registration, and token and
\* targetToken keep their values.
C5_PermissionDenied ==
    [][ (lastPermission'.n = lastPermission.n + 1
           /\ lastPermission'.permission \in {"denied", "default"})
        => /\ statusMessages' = <<ErrorEntry(Msg.PermissionDenied)>> \o statusMessages
           /\ \E i \in InFlight("tok") :
                 run[i].pc = "requestPermission" /\ run' = Remove(run, i)
           /\ getTokenLog' = getTokenLog
           /\ sw' = sw
           /\ swInbox' = swInbox
           /\ lastEnsure' = lastEnsure
           /\ token' = token
           /\ targetToken' = targetToken ]_vars

C5_Witness ==
    /\ lastPermission.permission \in {"denied", "default"}
    /\ statusMessages # <<>>
    /\ Head(statusMessages) = ErrorEntry(Msg.PermissionDenied)

\* C9: with no initialization or reset in flight, the messaging instance
\* and the app the component holds belong to no deleted app.
C9_NoDeletedAppHeld ==
    (InFlight("init") = {} /\ InFlight("reset") = {}) =>
        /\ messaging \notin deleted
        /\ firebaseApp \notin deleted

\* C10: every handleInitializeFirebase run finishes.  A run that has not
\* finished (isInitializing is true) is never stuck: a continuation of a
\* handler or a transition of the worker is still to come.
C10_InitRunNeverStuck ==
    isInitializing => ENABLED (HandlerSteps \/ WorkerLifecycle)

\* C10 as a liveness property, for FairSpec: isInitializing goes back to
\* false.
C10_InitializingEnds == isInitializing ~> ~isInitializing

\* C3: once an INIT_FIREBASE message with a config object has been
\* handled, the worker's app and messaging instance are those of that
\* config, the most recent one (where the worker supports messaging and the
\* config has the fields messaging requires).
C3_InitializedWithLatestConfig ==
    (swSupported /\ lastInitMsg.present /\ ~GetMessagingMayThrow(lastInitMsg.config)) =>
        /\ swApp = Present(lastInitMsg.config)
        /\ messagingInstance = Present(lastInitMsg.config)

\* C4 as stated, for the pushes the fallback listener answers: a push event
\* that finds no messaging instance results in one showNotification call.
C4_EveryPushShown ==
    (lastPush.seen /\ ~lastPush.instance) => lastPush.byFallback = 1

\* C4, amended: a push event results in at most one showNotification call,
\* never one from each path; the background handler shows it only with a
\* messaging instance; without one the fallback listener shows it exactly
\* when the event has data that parses as JSON to a value other than null;
\* the background handler is registered at most once.
C4_AtMostOneNotification ==
    /\ lastPush.seen =>
          /\ lastPush.byHandler + lastPush.byFallback <= 1
          /\ lastPush.byHandler = 1 => lastPush.instance
          /\ lastPush.byFallback = 1 => ~lastPush.instance
          /\ ~lastPush.instance =>
                (lastPush.byFallback = 1 <=>
                    /\ lastPush.data.present
                    /\ lastPush.data.text \in {T(<<"{", "}">>), T(<<"1">>)})
    /\ handlerRegistrations <= 1
    /\ backgroundHandlerRegistered <=> handlerRegistrations = 1

C4_Witness ==
    /\ lastPush.seen
    /\ lastPush.instance
    /\ lastPush.byHandler = 1
    /\ lastInitMsg.present
    /\ swApp # lastInitMsg

\* C6: when the fetch rejects or answers not-ok, the handler adds one entry
\* to the log, an error, sets sendResult to a non-empty text that is no
\* response body, and leaves sending false.
C6_NetworkFailureShown ==
    [][ (lastFetch'.n = lastFetch.n + 1 /\ lastFetch'.outcome \in {"rejected", "not-ok"})
        => /\ statusMessages' = <<ErrorEntry(Msg.SendError)>> \o statusMessages
           /\ sendResult' # <<>>
           /\ sendResult' \notin Inputs.ResultTexts
           /\ ~sending'
           /\ InFlight("send")' = {} ]_vars

C6_Witness ==
    /\ lastFetch.outcome = "rejected"
    /\ ~sending
    /\ sendResult = Msg.ErrorOccurred

\* C8: a click on send starts the fetch exactly when the server key and
\* the target token are non-blank and the data text is blank or parses as
\* JSON; otherwise it adds one error entry, starts nothing and leaves
\* sending false.  No request starts while sending is true.
SendInputsValid ==
    /\ serverKey.t = "str"
    /\ Trim(serverKey.s) # <<>>
    /\ Trim(targetToken) # <<>>
    /\ (Trim(pushPayload.data) = <<>> \/ JSONParse(pushPayload.data).ok)

C8_SendGuards ==
    [][ /\ sendClicks' = sendClicks + 1 =>
             IF SendInputsValid
             THEN /\ fetchCalls' = fetchCalls + 1
                  /\ sending'
                  /\ statusMessages' = statusMessages
             ELSE /\ fetchCalls' = fetchCalls
                  /\ ~sending'
                  /\ Len(statusMessages') = Len(statusMessages) + 1
                  /\ Head(statusMessages').type = "error"
                  /\ Tail(statusMessages') = statusMessages
        /\ fetchCalls' # fetchCalls => (~sending /\ sendClicks' = sendClicks + 1) ]_vars

C8_Witness ==
    /\ sendClicks = 2
    /\ fetchCalls = 1
    /\ sending
    /\ statusMessages # <<>>

\* the form holds the given values
FormIs(config, vKey, sKey) ==
    /\ firebaseConfig = config
    /\ vapidKey = vKey
    /\ serverKey = sKey

JustMounted == mountedAt = ops

\* the text of the settings saveSettings was last called with
LastSavedText ==
    Stored(StringifySettings(lastSaved.config, lastSaved.vapidKey, lastSaved.serverKey))

Finite(v) == v.t = "num" => v.d \notin {Infinity, <<45>> \o Infinity}

SavedValuesFinite ==
    /\ Finite(lastSaved.vapidKey)
    /\ Finite(lastSaved.serverKey)
    /\ lastSaved.config.t = "obj" =>
          \A k \in 1..Len(lastSaved.config.ms) : Finite(lastSaved.config.ms[k][2])

\* the settings in a state: what localStorage holds once a run's
\* localStorage.setItem has returned, and what a mount leaves in the form
C7_SettingsState ==
    /\ (lastSaved.valid /\ lastSaved.stored) => storage = LastSavedText
    /\ (JustMounted /\ lastSaved.valid /\ lastSaved.stored /\ SavedValuesFinite) =>
          FormIs(lastSaved.config, lastSaved.vapidKey, lastSaved.serverKey)
    /\ (JustMounted /\ (~storage.present \/ ~JSONParse(storage.text).ok)) =>
          FormIs(defaultConfig, JStr(<<>>), JStr(<<>>))

C11_ResetWins ==
    afterReset = "done" => token = <<>> /\ firebaseApp = 0 /\ messaging = 0
====
